---- MODULE Spec2Model ----
(***************************************************************************)
(* Verification model of the neurite mesh generation pipeline of           *)
(* neuro_collection (src/test/test_neurite_proj.cpp):                      *)
(*   import_swc -> convert_pointlist_to_neuritelist                        *)
(*     -> create_spline_data_for_neurites -> create_neurite*               *)
(*   with calculate_length_over_radius / calculate_segment_axial_positions *)
(*   consulted by the builders.                                            *)
(*                                                                         *)
(* The C++ type `number` (double) is modelled as fixed-point integers:     *)
(* curve parameters t are integer multiples of 1/TRes, so rounding of a    *)
(* quotient is to the nearest multiple of 1/TRes instead of the nearest    *)
(* double.  Every component has its own specification; the variables of    *)
(* the components a specification does not run stay at Idle.               *)
(***************************************************************************)
EXTENDS Integers, Sequences, FiniteSets, TLC

VARIABLES imp,   \* import_swc: file being read, points, index map
          dec,   \* convert_pointlist_to_neuritelist: queues, stack, output lists
          spl,   \* create_spline_data_for_neurites: neurites, sections, branching points
          rsm,   \* calculate_segment_axial_positions and its caller
          bld,   \* create_neurite / create_neurite_with_er / create_neurite_surf
          ang,   \* the angular surface parameters one builder invocation writes
          vdcc   \* a VDCC_BG channel object and the calls made on it

vars == <<imp, dec, spl, rsm, bld, ang, vdcc>>

Idle == [pc |-> "idle"]

-----------------------------------------------------------------------------
(* Generic helpers                                                         *)

Max(a, b) == IF a < b THEN b ELSE a   \* std::max(a, b): (a < b) ? b : a
Min(a, b) == IF b < a THEN b ELSE a   \* std::min(a, b): (b < a) ? b : a
Abs(a) == IF a < 0 THEN -a ELSE a

\* quotient of two numbers rounded to the nearest representable value (b > 0)
RDiv(a, b) == (2 * a + b) \div (2 * b)

\* a * num / den without leaving the 32-bit range (den > 0, 0 <= num <= den)
MulFrac(a, num, den) == (a \div den) * num + ((a % den) * num) \div den

\* floor of the square root of a small natural number
Isqrt(n) == CHOOSE k \in 0..n : k * k <= n /\ (k + 1) * (k + 1) > n

RECURSIVE SeqSum(_)
SeqSum(s) == IF s = <<>> THEN 0 ELSE Head(s) + SeqSum(Tail(s))

-----------------------------------------------------------------------------
(* Number representation                                                   *)

\* resolution of the curve parameter t and of the length-over-radius integral
TRes == 10000 * 10000

\* pi/2 in units of 1/TRes
HalfPi == 157079633

\* resolution of the anisotropy argument
ARes == 2 * 5

\* 1e-6, the relative tolerance of the rounding correction, as its inverse
RelTolInv == 1000000

\* 1e-12, the squared radius/velocity tolerance, as the inverse of its root
RadTolRootInv == 1000000

\* GaussLegendre gl(5): weights and points on [0,1], in units of 1/GLDen
GLDen == 1000 * 1000
GLWeights == <<118463, 239314, 284446, 239314, 118463>>
GLPoints == <<46910, 230765, 500000, 769235, 953090>>
nPts == Len(GLPoints)

-----------------------------------------------------------------------------
(* Sections and the quadrature of ||v(t)|| / r(t)                          *)
(* A Section is [endParam, splineParamsX, splineParamsY, splineParamsZ,    *)
(* splineParamsR]; each splineParams is the 4-tuple s[0..3] of the cubic   *)
(* in the monomial (endParam - t).                                         *)

\* product of a spline coefficient with a monomial given in units of 1/TRes
MulT(a, t) == IF a = 0 \/ t = 0 THEN 0 ELSE (a * t) \div TRes

\* v = -3.0*s[0]*t - 2.0*s[1];  v = v*t - s[2]
SplineVel(s, t) == MulT(-MulT(3 * s[1], t) - 2 * s[2], t) - s[3]

\* r = s[0]*t + s[1];  r = r*t + s[2];  r = r*t + s[3]
SplineVal(s, t) == MulT(MulT(MulT(s[1], t) + s[2], t) + s[3], t) + s[4]

VecNormSquared(v) == v[1] * v[1] + v[2] * v[2] + v[3] * v[3]

SecVel(sec, t) ==
    << SplineVel(sec.splineParamsX, t),
       SplineVel(sec.splineParamsY, t),
       SplineVel(sec.splineParamsZ, t) >>

\* the guard r*r <= VecNormSquared(vel)*1e-12 of the quadrature loops
RadiusVanishes(r, vel) ==
    r * r <= (VecNormSquared(vel) \div RadTolRootInv) \div RadTolRootInv

\* monomial of quadrature point i of the sub-interval [sec_tstart, sec_tstart+dt]
QuadMonom(sec, sec_tstart, dt, i) ==
    sec.endParam - (sec_tstart + MulFrac(dt, GLPoints[i], GLDen))

\* TRUE iff the UG_COND_THROW inside the quadrature loop fires at some point
QuadThrows(sec, sec_tstart, dt) ==
    \E i \in 1..nPts :
        LET t == QuadMonom(sec, sec_tstart, dt, i)
        IN  RadiusVanishes(SplineVal(sec.splineParamsR, t), SecVel(sec, t))

\* sec_integral = sum_i gl.weight(i) * sqrt(VecNormSquared(vel)) / r
QuadSum(sec, sec_tstart, dt) ==
    LET term(i) ==
            LET t == QuadMonom(sec, sec_tstart, dt, i)
                r == SplineVal(sec.splineParamsR, t)
            IN  GLWeights[i] * RDiv(Isqrt(VecNormSquared(SecVel(sec, t))), r)
    IN  RDiv(SeqSum([i \in 1..nPts |-> term(i)]), GLDen)

\* start parameter of section number k (0-based) of a section list
SecStart(vSec, k) == IF k > 0 THEN vSec[k].endParam ELSE 0

\* the startSec check shared by both resampler functions
WrongSection(vSec, startSec, t_start) ==
    vSec[startSec + 1].endParam < t_start \/ SecStart(vSec, startSec) > t_start

\* calculate_length_over_radius: the loop from section sec_it (0-based) on;
\* the result is [throw, value]
RECURSIVE LengthLoop(_, _, _, _, _)
LengthLoop(vSec, sec_it, t_start, t_end, integral) ==
    IF sec_it = Len(vSec) THEN [throw |-> FALSE, value |-> integral]
    ELSE
      LET sec == vSec[sec_it + 1]
          sec_tstart == Max(t_start, SecStart(vSec, sec_it))
          sec_tend == Min(t_end, sec.endParam)
          dt == sec_tend - sec_tstart
      IN  IF QuadThrows(sec, sec_tstart, dt)
          THEN [throw |-> TRUE, value |-> 0]
          ELSE LET next == integral + dt * QuadSum(sec, sec_tstart, dt)
               IN  IF sec_tend >= t_end
                   THEN [throw |-> FALSE, value |-> next]
                   ELSE LengthLoop(vSec, sec_it + 1, sec_tend, t_end, next)

calculate_length_over_radius(t_start, t_end, vSec, startSec) ==
    IF WrongSection(vSec, startSec, t_start)
    THEN [throw |-> TRUE, value |-> 0]
    ELSE LengthLoop(vSec, startSec, t_start, t_end, 0)

-----------------------------------------------------------------------------
(* Arc-length resampler: the caller's segment count (create_neurite) and   *)
(* calculate_segment_axial_positions                                       *)

\* bounds of the resampler inputs
MaxSec == 2          \* sections per neurite
RsmTSteps == 4       \* t_start and t_end are multiples of 1/RsmTSteps
Speeds == {2, 6}     \* ||v|| on a section
Radii == {0, 1, 2}   \* r on a section
Anisotropies == {2, 10, 40}   \* in units of 1/ARes

\* anisotropy*0.5*PI in units of 1/TRes
AnisoLen(anisotropy) == anisotropy * (HalfPi \div ARes)

\* the ceiling an implementation might have used instead of floor
NSegCeil(lengthOverRadius, anisotropy) ==
    LET n == (lengthOverRadius + AnisoLen(anisotropy) - 1) \div AnisoLen(anisotropy)
    IN  IF n = 0 THEN 1 ELSE n

\* size_t nSeg = (size_t) floor(lengthOverRadius / (anisotropy*0.5*PI));
\* if (!nSeg) nSeg = 1;      (lengthOverRadius >= 0)
NSegOf(lengthOverRadius, anisotropy) ==
    LET n == lengthOverRadius \div AnisoLen(anisotropy)
    IN  IF n = 0 THEN 1 ELSE n

\* (nSeg*segLength - integral)/integral < 1e-6, with diff = nSeg*segLength - integral
\* (x/0 is -inf, NaN or +inf in IEEE arithmetic)
RelErrBelowTol(diff, integral) ==
    IF integral > 0 THEN diff <= (integral - 1) \div RelTolInv
    ELSE IF integral = 0 THEN diff < 0
    ELSE -diff <= (-integral - 1) \div RelTolInv

\* a rounding correction that only looks at the segment counter
RoundingCorrectionNoTol(seg, nSeg, segLength, integral) == seg + 1 = nSeg

\* if (seg+1 == nSeg && (nSeg*segLength - integral)/integral < 1e-6)
RoundingCorrection(seg, nSeg, segLength, integral) ==
    seg + 1 = nSeg /\ RelErrBelowTol(nSeg * segLength - integral, integral)

\* while (integral >= (seg+1)*segLength) { segAxPosOut[seg] = ...; ++seg; }
\* A write to segAxPosOut[seg] with seg >= nSeg is outside the vector: the
\* loop is cut there and reported as oob.
RECURSIVE InnerLoop(_, _, _, _, _, _, _)
InnerLoop(seg, out, integral, lastIntegral, t_start, sec_integral, segLength) ==
    IF integral >= (seg + 1) * segLength
    THEN IF seg >= Len(out)
         THEN [seg |-> seg, out |-> out, oob |-> TRUE]
         ELSE InnerLoop(seg + 1,
                        [out EXCEPT ![seg + 1] =
                            t_start + RDiv((seg + 1) * segLength - lastIntegral, sec_integral)],
                        integral, lastIntegral, t_start, sec_integral, segLength)
    ELSE [seg |-> seg, out |-> out, oob |-> FALSE]

LinearSection(endParam, v, r) ==
    [endParam |-> endParam,
     splineParamsX |-> <<0, 0, -v, 0>>,
     splineParamsY |-> <<0, 0, 0, 0>>,
     splineParamsZ |-> <<0, 0, 0, 0>>,
     splineParamsR |-> <<0, 0, 0, r>>]

\* section lists with equally long sections, each with its own speed and radius
RsmNeurites ==
    UNION { { [k \in 1..n |-> LinearSection((k * TRes) \div n, v[k], r[k])] :
                v \in [1..n -> Speeds], r \in [1..n -> Radii] } : n \in 1..MaxSec }

RsmTGrid == { (k * TRes) \div RsmTSteps : k \in 0..RsmTSteps }

RsmInit ==
    /\ rsm \in { [pc |-> "call", vSec |-> n, t_start0 |-> ts, t_end |-> te,
                  startSec |-> c, anisotropy |-> a,
                  lengthOverRadius |-> 0, nSeg |-> 0, segLength |-> 0,
                  segAxPosOut |-> <<>>, sec_it |-> c, t_start |-> ts,
                  integral |-> 0, seg |-> 0, corrected |-> FALSE] :
                n \in RsmNeurites, ts \in RsmTGrid, te \in RsmTGrid,
                c \in 0..(MaxSec - 1), a \in Anisotropies }
    /\ rsm.startSec < Len(rsm.vSec)
    /\ imp = Idle /\ dec = Idle /\ spl = Idle /\ bld = Idle /\ ang = Idle /\ vdcc = Idle

\* create_neurite: lengthOverRadius, nSeg, segLength, vSegAxPos(nSeg), and the
\* entry of calculate_segment_axial_positions
ResampleCall ==
    /\ rsm.pc = "call"
    /\ LET lor == calculate_length_over_radius(rsm.t_start0, rsm.t_end, rsm.vSec, rsm.startSec)
       IN  IF lor.throw
           THEN rsm' = [rsm EXCEPT !.pc = "throw"]
           ELSE IF lor.value < 0
           THEN \* (size_t) of a negative double is undefined
                rsm' = [rsm EXCEPT !.pc = "ub", !.lengthOverRadius = lor.value]
           ELSE LET n == NSegOf(lor.value, rsm.anisotropy)
                IN  rsm' = [rsm EXCEPT !.pc = "loop",
                                       !.lengthOverRadius = lor.value,
                                       !.nSeg = n,
                                       !.segLength = RDiv(lor.value, n),
                                       !.segAxPosOut = [i \in 1..n |-> 0]]
    /\ UNCHANGED <<imp, dec, spl, bld, ang, vdcc>>

\* one pass of while (sec_it != sec_end) in calculate_segment_axial_positions
SegAxPosSection ==
    /\ rsm.pc = "loop"
    /\ rsm.sec_it < Len(rsm.vSec)
    /\ LET sec == rsm.vSec[rsm.sec_it + 1]
           sec_tstart == Max(rsm.t_start, SecStart(rsm.vSec, rsm.sec_it))
           sec_tend == Min(rsm.t_end, sec.endParam)
           dt == sec_tend - sec_tstart
       IN  IF QuadThrows(sec, sec_tstart, dt)
           THEN rsm' = [rsm EXCEPT !.pc = "throw"]
           ELSE
             LET sec_integral == QuadSum(sec, sec_tstart, dt)
                 integral == rsm.integral + dt * sec_integral
                 lastIntegral == integral - dt * sec_integral
                 w == InnerLoop(rsm.seg, rsm.segAxPosOut, integral, lastIntegral,
                                rsm.t_start, sec_integral, rsm.segLength)
             IN  rsm' = [rsm EXCEPT
                           !.integral = integral,
                           !.seg = w.seg,
                           !.segAxPosOut = w.out,
                           !.t_start = sec_tend,
                           !.sec_it = IF sec_tend >= rsm.t_end THEN @ ELSE @ + 1,
                           !.pc = IF w.oob THEN "ub"
                                  ELSE IF sec_tend >= rsm.t_end
                                          \/ rsm.sec_it + 1 = Len(rsm.vSec)
                                       THEN "finish" ELSE "loop"]
    /\ UNCHANGED <<imp, dec, spl, bld, ang, vdcc>>

\* the rounding correction after the loop; UG_ASSERT(seg == nSeg) is compiled
\* out of release builds, so the call returns either way
SegAxPosFinish ==
    /\ rsm.pc = "finish"
    /\ IF RoundingCorrection(rsm.seg, rsm.nSeg, rsm.segLength, rsm.integral)
       THEN rsm' = [rsm EXCEPT !.segAxPosOut[rsm.nSeg] = rsm.t_end,
                               !.seg = @ + 1,
                               !.corrected = TRUE,
                               !.pc = "done"]
       ELSE rsm' = [rsm EXCEPT !.pc = "done"]
    /\ UNCHANGED <<imp, dec, spl, bld, ang, vdcc>>

RsmNext == ResampleCall \/ SegAxPosSection \/ SegAxPosFinish

SpecResampler == RsmInit /\ [][RsmNext]_vars

-----------------------------------------------------------------------------
(* Claims about the resampler                                              *)

RsmCounted == rsm.pc \in {"loop", "finish", "done"}

\* C1 as stated (read with the spec's "minimum 1"): the number of axial
\* positions produced for an interval is the smallest integer >= L/(a*pi/2),
\* L being the quadrature-computed length-over-radius.
C1_SegmentCountIsCeiling ==
    RsmCounted =>
        Len(rsm.segAxPosOut) = NSegCeil(rsm.lengthOverRadius, rsm.anisotropy)

\* C1 amended: for an interval with L >= 0 the number of axial positions
\* produced is the largest integer n with n*(a*pi/2) <= L, or 1 when L is
\* shorter than a*pi/2; on return every one of these positions has been written.
C1_SegmentCountIsFloor ==
    /\ RsmCounted =>
         /\ Len(rsm.segAxPosOut) = rsm.nSeg
         /\ \/ /\ rsm.nSeg * AnisoLen(rsm.anisotropy) <= rsm.lengthOverRadius
               /\ (rsm.nSeg + 1) * AnisoLen(rsm.anisotropy) > rsm.lengthOverRadius
            \/ /\ rsm.nSeg = 1
               /\ rsm.lengthOverRadius < AnisoLen(rsm.anisotropy)
    /\ rsm.pc = "done" => rsm.seg = rsm.nSeg

\* a returned call whose quotient L/(a*pi/2) is not an integer and exceeds 2
C1_Witness ==
    /\ rsm.pc = "done"
    /\ rsm.nSeg >= 2
    /\ rsm.nSeg * AnisoLen(rsm.anisotropy) < rsm.lengthOverRadius

\* C2: for every resampler call that returns without error, the last axial
\* position produced is identical to the interval's t_end.
C2_LastPositionIsTEnd ==
    rsm.pc = "done" => rsm.segAxPosOut[rsm.nSeg] = rsm.t_end


\* C23 (as stated): resampling one interval returns or raises an error
\* after finitely many steps for every input, intervals with t_end <= t_start
\* (length over radius 0 or negative) included, and never writes outside the
\* nSeg output slots: no call reaches the conversion of a negative length to
\* size_t or a pass of the inner loop with seg >= nSeg
C23_ResamplerEndsInBounds ==
    /\ rsm.pc # "ub"
    /\ rsm.pc \in {"loop", "finish", "done"} => rsm.seg <= rsm.nSeg
-----------------------------------------------------------------------------
(* import_swc                                                              *)
(* A line of the file is [tokens, index, type, coords, radius, conn]:      *)
(* tokens is the number of whitespace-separated tokens left after the      *)
(* comment has been cut off (0 for a blank or comment-only line), the      *)
(* other fields are the values of the tokens of a 7-token line.            *)
(* An SWCPoint is [type, coords, radius, conns]; conns holds 0-based       *)
(* positions in vPointsOut.                                                *)

MaxLines == 3                  \* lines per file
SwcIndices == {0, 1}           \* values of the index field
SwcTypes == {1, 3}             \* values of the type field
SwcParents == {-2, -1, 0, 1}   \* values of the parent field

\* switch (type) { case 1: SWC_SOMA ... default: SWC_UNDF }
SwcType(type) ==
    CASE type = 1 -> "SWC_SOMA"
      [] type = 2 -> "SWC_AXON"
      [] type = 3 -> "SWC_DEND"
      [] type = 4 -> "SWC_APIC"
      [] OTHER -> "SWC_UNDF"

\* indexMap[k] = v
MapPut(map, k, v) ==
    [x \in (DOMAIN map) \cup {k} |-> IF x = k THEN v ELSE map[x]]

\* a parent test that takes 0 for "no parent" as well
HasParentPositive(conn) == conn > 0

\* if (conn >= 0)
HasParent(conn) == conn >= 0

\* a token test that lets short lines pass
TokenCountAbove(n) == n > 7

\* UG_COND_THROW(strs.size() != 7, ...)
WrongTokenCount(n) == n # 7

ImportStart ==
    [pc |-> "read", lineCnt |-> 0, curInd |-> 0, indexMap |-> <<>>,
     vPointsOut |-> <<>>, errLine |-> 0, errKind |-> "none"]

\* a connection that only the child records
ConnectChildOnly(pts, curInd, parentID) ==
    [pts EXCEPT ![curInd + 1].conns = Append(@, parentID)]

\* pt.conns.push_back(parentID); vPointsOut[parentID].conns.push_back(curInd);
Connect(pts, curInd, parentID) ==
    LET withParent == [pts EXCEPT ![curInd + 1].conns = Append(@, parentID)]
    IN  [withParent EXCEPT ![parentID + 1].conns = Append(@, curInd)]

\* one pass of while (std::getline(inFile, line)) on the state st
ImportLine(st, line) ==
    LET cnt == st.lineCnt + 1
    IN  IF line.tokens = 0
        THEN [st EXCEPT !.lineCnt = cnt]
        ELSE IF WrongTokenCount(line.tokens)
        THEN [st EXCEPT !.lineCnt = cnt, !.pc = "throw",
                        !.errLine = cnt, !.errKind = "tokens"]
        ELSE
          LET map == MapPut(st.indexMap, line.index, st.curInd)
              pt == [type |-> SwcType(line.type), coords |-> line.coords,
                     radius |-> line.radius, conns |-> <<>>]
              pts == Append(st.vPointsOut, pt)
          IN  IF ~HasParent(line.conn)
              THEN [st EXCEPT !.lineCnt = cnt, !.indexMap = map,
                              !.vPointsOut = pts, !.curInd = @ + 1]
              ELSE IF line.conn \notin DOMAIN map
              THEN [st EXCEPT !.lineCnt = cnt, !.indexMap = map,
                              !.vPointsOut = pts, !.pc = "throw",
                              !.errLine = cnt, !.errKind = "parent"]
              ELSE
                [st EXCEPT !.lineCnt = cnt, !.indexMap = map,
                           !.vPointsOut = Connect(pts, st.curInd, map[line.conn]),
                           !.curInd = @ + 1]

\* the whole of import_swc on a file
RECURSIVE ImportAll(_, _)
ImportAll(st, file) ==
    IF file = <<>> THEN [st EXCEPT !.pc = "done"]
    ELSE LET next == ImportLine(st, Head(file))
         IN  IF next.pc = "throw" THEN next ELSE ImportAll(next, Tail(file))

SwcLine(tokens, index, type, conn) ==
    [tokens |-> tokens, index |-> index, type |-> type,
     coords |-> <<0, 0>>, radius |-> 1, conn |-> conn]

\* blank or comment-only lines, lines with 6 or 8 values, lines with 7 values
SwcLines ==
    {SwcLine(0, 0, 0, 0), SwcLine(6, 0, 0, 0), SwcLine(8, 0, 0, 0)}
    \cup { SwcLine(7, i, t, c) : i \in SwcIndices, t \in SwcTypes, c \in SwcParents }

SwcFiles == UNION { [1..n -> SwcLines] : n \in 1..MaxLines }

ImpInit ==
    /\ imp \in { [file |-> f, st |-> ImportStart] : f \in SwcFiles }
    /\ dec = Idle /\ spl = Idle /\ rsm = Idle /\ bld = Idle /\ ang = Idle /\ vdcc = Idle

\* the loop body for the next line of the file
ImportReadLine ==
    /\ imp.st.pc = "read"
    /\ imp.st.lineCnt < Len(imp.file)
    /\ imp' = [imp EXCEPT !.st = ImportLine(imp.st, imp.file[imp.st.lineCnt + 1])]
    /\ UNCHANGED <<dec, spl, rsm, bld, ang, vdcc>>

\* std::getline fails at the end of the file: import_swc returns
ImportReturn ==
    /\ imp.st.pc = "read"
    /\ imp.st.lineCnt = Len(imp.file)
    /\ imp' = [imp EXCEPT !.st.pc = "done"]
    /\ UNCHANGED <<dec, spl, rsm, bld, ang, vdcc>>

ImpNext == ImportReadLine \/ ImportReturn

SpecImport == ImpInit /\ [][ImpNext]_vars

-----------------------------------------------------------------------------
(* Claims about import_swc                                                 *)

ImpRecords == { k \in 1..Len(imp.file) : imp.file[k].tokens = 7 }
ImpIndexFields == { imp.file[k].index : k \in ImpRecords }

\* C4 as stated: import fails whenever some record's parent field differs
\* from -1 and equals the index field of no record of the file.
C4_UnknownParentFails ==
    imp.st.pc = "done" =>
        \A k \in ImpRecords :
            imp.file[k].conn = -1 \/ imp.file[k].conn \in ImpIndexFields

\* C4 amended: import fails whenever some record's parent field is
\* non-negative and equals the index field of no record of the file.
C4_UnknownNonNegativeParentFails ==
    imp.st.pc = "done" =>
        \A k \in ImpRecords :
            imp.file[k].conn < 0 \/ imp.file[k].conn \in ImpIndexFields

\* import has stopped at a record whose non-negative parent no record names
C4_Witness ==
    /\ imp.st.pc = "throw"
    /\ imp.st.errKind = "parent"
    /\ imp.file[imp.st.errLine].conn >= 0
    /\ imp.file[imp.st.errLine].conn \notin ImpIndexFields

\* j is in the connection list of point i (both 0-based)
InConns(vPoints, i, j) ==
    \E c \in 1..Len(vPoints[i + 1].conns) : vPoints[i + 1].conns[c] = j

\* C17: after a successful import the adjacency is symmetric: for all points
\* i and j, j is in the connection list of i if and only if i is in the
\* connection list of j
C17_AdjacencySymmetric ==
    imp.st.pc = "done" =>
        \A i, j \in 0..(Len(imp.st.vPointsOut) - 1) :
            InConns(imp.st.vPointsOut, i, j) <=> InConns(imp.st.vPointsOut, j, i)

\* a finished import with a point that has its parent and a child as two
\* different neighbours
C17_Witness ==
    /\ imp.st.pc = "done"
    /\ \E i, j, k \in 0..(Len(imp.st.vPointsOut) - 1) :
          /\ j < i /\ i < k
          /\ InConns(imp.st.vPointsOut, i, j)
          /\ InConns(imp.st.vPointsOut, i, k)

\* C11: as soon as import has read a line that is neither blank nor
\* comment-only and has a number of values other than 7, it has stopped with
\* the error about the number of values, and the error names the position of
\* that line among all lines of the file, blank and comment lines counted
C11_MalformedLineFails ==
    \A k \in 1..Len(imp.file) :
        (imp.file[k].tokens \notin {0, 7} /\ imp.st.lineCnt >= k) =>
            /\ imp.st.pc = "throw"
            /\ imp.st.errKind = "tokens"
            /\ imp.st.errLine = k

\* import has stopped at a malformed line that follows a blank or comment
\* line and a record
C11_Witness ==
    /\ imp.st.pc = "throw"
    /\ imp.st.errKind = "tokens"
    /\ imp.st.errLine = 3
    /\ imp.file[3].tokens \notin {0, 7}
    /\ \E j \in 1..2 : imp.file[j].tokens = 0
    /\ \E j \in 1..2 : imp.file[j].tokens = 7

-----------------------------------------------------------------------------
(* convert_pointlist_to_neuritelist                                        *)
(* vPosOut[n] and vRadOut[n] are filled in parallel from the same point;   *)
(* the model keeps, per entry, the number of the point whose coords and    *)
(* radius were pushed.  Point, neurite and branching point numbers are     *)
(* 0-based as in the code.  walk logs every pass of the processing loop:   *)
(* [pind, ind, nid, at], the entry vPosOut[nid][at] it pushed.             *)

MaxPts == 4            \* points per morphology
DecMaxProcessed == 12  \* cap on nProcessed, cutting walks that never end

\* coordinates of point k (0-based) in each layout; all points distinct
Layouts ==
    { << <<0, 0>>, <<1, 0>>, <<2, 0>>, <<1, 1>>, <<2, 1>>, <<3, 0>> >>,
      << <<0, 0>>, <<1, 0>>, <<1, 1>>, <<2, 0>>, <<2, -1>>, <<0, 1>> >>,
      << <<0, 0>>, <<1, 0>>, <<2, 1>>, <<2, -1>>, <<0, 1>>, <<3, 0>> >> }

VecSubtract(a, b) == <<a[1] - b[1], a[2] - b[2]>>
VecProd(a, b) == a[1] * b[1] + a[2] * b[2]
IsZeroVec(a) == a[1] = 0 /\ a[2] = 0

\* cos of the angle between a and p is greater than between b and p
\* (a, b, p non-zero)
CosGreater(a, b, p) ==
    LET x == VecProd(a, p)
        y == VecProd(b, p)
        A == VecProd(a, a)
        B == VecProd(b, b)
    IN  IF x >= 0 /\ y < 0 THEN TRUE
        ELSE IF x < 0 /\ y >= 0 THEN FALSE
        ELSE IF x >= 0 THEN x * x * B > y * y * A
        ELSE x * x * B < y * y * A

\* the comparison turned around
AngleGreater(dir, min, parentDir) ==
    IF IsZeroVec(dir) \/ IsZeroVec(parentDir) THEN FALSE
    ELSE IF min.inf THEN FALSE
    ELSE CosGreater(min.dir, dir, parentDir)

\* angle < minAngle, with angle = acos(VecProd(dir, parentDir)) of the
\* normalized vectors; normalizing a zero vector gives NaN, and a comparison
\* with NaN is false; minAngle starts at infinity
AngleLess(dir, min, parentDir) ==
    IF IsZeroVec(dir) \/ IsZeroVec(parentDir) THEN FALSE
    ELSE IF min.inf THEN TRUE
    ELSE CosGreater(dir, min.dir, parentDir)

\* the first loop over pt.conns at a branching point, from position i (0-based)
RECURSIVE BranchScan(_, _, _, _, _)
BranchScan(vPoints, ind, pind, i, acc) ==
    LET pt == vPoints[ind + 1]
    IN  IF i = Len(pt.conns) THEN acc
        ELSE IF pt.conns[i + 1] = pind
        THEN BranchScan(vPoints, ind, pind, i + 1, [acc EXCEPT !.parentToBeDiscarded = i])
        ELSE
          LET parentDir == VecSubtract(pt.coords, vPoints[pind + 1].coords)
              dir == VecSubtract(vPoints[pt.conns[i + 1] + 1].coords, pt.coords)
          IN  IF AngleLess(dir, acc.minAngle, parentDir)
              THEN BranchScan(vPoints, ind, pind, i + 1,
                       [acc EXCEPT !.minAngle = [inf |-> FALSE, dir |-> dir],
                                   !.minAngleInd = i])
              ELSE BranchScan(vPoints, ind, pind, i + 1, acc)

BranchChoice(vPoints, ind, pind) ==
    BranchScan(vPoints, ind, pind, 0,
               [parentToBeDiscarded |-> 0, minAngleInd |-> 0,
                minAngle |-> [inf |-> TRUE, dir |-> <<0, 0>>]])

\* positions i of pt.conns that start a new neurite
BranchOthers(pt, choice) ==
    { i \in 0..(Len(pt.conns) - 1) :
        i # choice.parentToBeDiscarded /\ i # choice.minAngleInd }

\* elements of a set of naturals in increasing order
RECURSIVE SortedSeq(_)
SortedSeq(S) ==
    IF S = {} THEN <<>>
    ELSE LET lo == CHOOSE x \in S : \A y \in S : x <= y
         IN  <<lo>> \o SortedSeq(S \ {lo})

\* vec.resize(vec.size() + n) for a vector of vectors
Grow(vec, n) == vec \o [i \in 1..n |-> <<>>]

\* morphologies as import_swc returns them: record k has index k, a parent
\* field among the indices read so far (its own included) or -1, type soma
\* or dendrite, and the coordinates of a layout
DecParents(n) == { par \in [1..n -> -1..(n - 1)] : \A k \in 1..n : par[k] < k }

DecFiles ==
    UNION { { [k \in 1..n |->
                 [tokens |-> 7, index |-> k - 1, type |-> ty[k],
                  coords |-> lay[k], radius |-> 1, conn |-> par[k]]] :
              par \in DecParents(n), ty \in [1..n -> SwcTypes],
              lay \in Layouts } : n \in 1..MaxPts }

DecStart(vPoints) ==
    [pc |-> "outer", vPoints |-> vPoints,
     ptProcessed |-> [k \in 1..Len(vPoints) |-> FALSE],
     nProcessed |-> 0, curNeuriteInd |-> 0,
     vSomaPoints |-> <<>>, soma_queue |-> <<>>, rootPts |-> <<>>,
     processing_stack |-> <<>>, helperMap |-> <<>>,
     vPosOut |-> <<>>, vBPInfoOut |-> <<>>, vRootNeuriteIndsOut |-> <<>>,
     walk |-> <<>>, err |-> "none"]

DecInit ==
    /\ dec \in { DecStart(ImportAll(ImportStart, f).vPointsOut) : f \in DecFiles }
    /\ imp = Idle /\ spl = Idle /\ rsm = Idle /\ bld = Idle /\ ang = Idle /\ vdcc = Idle

\* while (nProcessed != nPts): look for the first unprocessed soma point
DecFindSoma ==
    /\ dec.pc = "outer"
    /\ LET nPoints == Len(dec.vPoints)
           somas == { i \in 0..(nPoints - 1) :
                        dec.vPoints[i + 1].type = "SWC_SOMA" /\ ~dec.ptProcessed[i + 1] }
       IN  IF dec.nProcessed = nPoints
           THEN dec' = [dec EXCEPT !.pc = "done"]
           ELSE IF somas = {}
           THEN dec' = [dec EXCEPT !.pc = "throw", !.err = "no soma"]
           ELSE LET i == CHOOSE x \in somas : \A y \in somas : x <= y
                IN  dec' = [dec EXCEPT !.pc = "soma",
                                       !.vSomaPoints = Append(@, i),
                                       !.rootPts = <<>>,
                                       !.soma_queue = << <<-1, i>> >>]
    /\ UNCHANGED <<imp, spl, rsm, bld, ang, vdcc>>

\* one pass of while (!soma_queue.empty())
DecSomaQueue ==
    /\ dec.pc = "soma"
    /\ dec.soma_queue # <<>>
    /\ dec.nProcessed < DecMaxProcessed
    /\ LET pind == Head(dec.soma_queue)[1]
           ind == Head(dec.soma_queue)[2]
           pt == dec.vPoints[ind + 1]
           pushed == [j \in 1..Len(pt.conns) |-> <<ind, pt.conns[j]>>]
       IN  IF pt.type = "SWC_SOMA"
           THEN dec' = [dec EXCEPT
                          !.ptProcessed[ind + 1] = TRUE,
                          !.nProcessed = @ + 1,
                          !.soma_queue = Tail(@) \o SelectSeq(pushed, LAMBDA e : e[2] # pind)]
           ELSE dec' = [dec EXCEPT
                          !.soma_queue = Tail(@),
                          !.rootPts = Append(@, <<pind, ind>>)]
    /\ UNCHANGED <<imp, spl, rsm, bld, ang, vdcc>>

\* the queue is empty: make room for the root neurites and fill the stack
DecStartStack ==
    /\ dec.pc = "soma"
    /\ dec.soma_queue = <<>>
    /\ dec' = [dec EXCEPT
                 !.pc = "stack",
                 !.vPosOut = Grow(@, Len(dec.rootPts)),
                 !.vBPInfoOut = Grow(@, Len(dec.rootPts)),
                 !.processing_stack = dec.rootPts,
                 !.vRootNeuriteIndsOut = Append(@, dec.curNeuriteInd),
                 !.helperMap = <<>>]
    /\ UNCHANGED <<imp, spl, rsm, bld, ang, vdcc>>

\* the branching point case of the processing loop
DecBranchingPoint(d, pind, ind, rest) ==
    LET pt == d.vPoints[ind + 1]
        cur == d.curNeuriteInd
        nConn == Len(pt.conns)
        choice == BranchChoice(d.vPoints, ind, pind)
        others == SortedSeq(BranchOthers(pt, choice))
        bp == [first |-> Len(d.vPosOut[cur + 1]) - 1, second |-> <<>>]
    IN  [d EXCEPT
           !.vPosOut = Grow(@, nConn - 2),
           !.vBPInfoOut = [Grow(@, nConn - 2) EXCEPT ![cur + 1] = Append(@, bp)],
           !.processing_stack =
               rest \o [k \in 1..Len(others) |-> <<ind, pt.conns[others[k] + 1]>>]
                    \o << <<ind, pt.conns[choice.minAngleInd + 1]>> >>,
           !.helperMap =
               IF others = <<>> THEN @
               ELSE MapPut(@, ind, <<cur, Len(d.vBPInfoOut[cur + 1])>>)]

\* the end point case of the processing loop
DecEndPoint(d, rest) ==
    IF rest = <<>> THEN [d EXCEPT !.processing_stack = rest]
    ELSE
      LET cur == d.curNeuriteInd + 1
          nextParentID == rest[Len(rest)][1]
      IN  IF nextParentID \in DOMAIN d.helperMap
          THEN IF cur >= Len(d.vPosOut)
               THEN [d EXCEPT !.pc = "ub", !.err = "vPosOut index",
                              !.processing_stack = rest, !.curNeuriteInd = cur]
               ELSE LET nextParentNeuriteID == d.helperMap[nextParentID][1]
                        nextParentBPID == d.helperMap[nextParentID][2]
                    IN  [d EXCEPT
                           !.processing_stack = rest,
                           !.curNeuriteInd = cur,
                           !.vPosOut[cur + 1] = Append(@, nextParentID),
                           !.vBPInfoOut[nextParentNeuriteID + 1][nextParentBPID + 1].second =
                               Append(@, cur)]
          ELSE [d EXCEPT !.processing_stack = rest,
                         !.curNeuriteInd = cur,
                         !.vRootNeuriteIndsOut = Append(@, cur)]

\* one pass of while (!processing_stack.empty())
DecProcessPoint ==
    /\ dec.pc = "stack"
    /\ dec.processing_stack # <<>>
    /\ dec.nProcessed < DecMaxProcessed
    /\ LET n == Len(dec.processing_stack)
           pind == dec.processing_stack[n][1]
           ind == dec.processing_stack[n][2]
           rest == SubSeq(dec.processing_stack, 1, n - 1)
           pt == dec.vPoints[ind + 1]
           cur == dec.curNeuriteInd
           marked == [dec EXCEPT !.ptProcessed[ind + 1] = TRUE, !.nProcessed = @ + 1]
       IN  IF pt.type = "SWC_SOMA"
           THEN dec' = [marked EXCEPT !.pc = "throw", !.err = "more than one soma",
                                      !.processing_stack = rest]
           ELSE IF cur >= Len(dec.vPosOut)
           THEN dec' = [marked EXCEPT !.pc = "ub", !.err = "vPosOut index",
                                      !.processing_stack = rest]
           ELSE
             LET pushed == [marked EXCEPT
                              !.vPosOut[cur + 1] = Append(@, ind),
                              !.walk = Append(@, [pind |-> pind, ind |-> ind, nid |-> cur,
                                                  at |-> Len(dec.vPosOut[cur + 1])])]
                 conn == [j \in 1..Len(pt.conns) |-> <<ind, pt.conns[j]>>]
             IN  IF Len(pt.conns) > 2
                 THEN dec' = DecBranchingPoint(pushed, pind, ind, rest)
                 ELSE IF Len(pt.conns) = 1
                 THEN dec' = DecEndPoint(pushed, rest)
                 ELSE dec' = [pushed EXCEPT !.processing_stack =
                                 rest \o SelectSeq(conn, LAMBDA e : e[2] # pind)]
    /\ UNCHANGED <<imp, spl, rsm, bld, ang, vdcc>>

\* the stack is empty: ++curNeuriteInd, back to the outer loop
DecNeuronDone ==
    /\ dec.pc = "stack"
    /\ dec.processing_stack = <<>>
    /\ dec' = [dec EXCEPT !.pc = "outer", !.curNeuriteInd = @ + 1]
    /\ UNCHANGED <<imp, spl, rsm, bld, ang, vdcc>>

DecNext ==
    DecFindSoma \/ DecSomaQueue \/ DecStartStack \/ DecProcessPoint \/ DecNeuronDone

SpecDecompose == DecInit /\ [][DecNext]_vars

\* ---- claims about the decomposition ----

\* the only cycles import_swc can hand over: a parent that is not yet in the
\* index map throws, the record's own index is already in it
HasCycle(vPoints) ==
    \E i \in 1..Len(vPoints) :
        \E j \in 1..Len(vPoints[i].conns) : vPoints[i].conns[j] = i - 1

\* C3: if the adjacency handed to the decomposition contains a cycle (a
\* record naming itself as parent included), the decomposition never returns
\* a neurite list
C3_CycleNeverReturns ==
    (dec.pc = "done") => ~HasCycle(dec.vPoints)

\* the branching points of the walk whose angles are all defined: more than
\* two neighbours, none of them at the position of the point itself
DefinedBranching(w) ==
    LET pt == dec.vPoints[w.ind + 1]
    IN  /\ Len(pt.conns) > 2
        /\ \A j \in 1..Len(pt.conns) :
              ~IsZeroVec(VecSubtract(dec.vPoints[pt.conns[j] + 1].coords, pt.coords))

WalkCut == dec.pc \in {"throw", "ub"}

\* no neighbour of the branching point but the parent makes a smaller angle
\* with the incoming direction than neighbour c
SmallestAngle(w, c) ==
    LET pt == dec.vPoints[w.ind + 1]
        parentDir == VecSubtract(pt.coords, dec.vPoints[w.pind + 1].coords)
        dirOf(x) == VecSubtract(dec.vPoints[x + 1].coords, pt.coords)
    IN  /\ c # w.pind
        /\ \E j \in 1..Len(pt.conns) : pt.conns[j] = c
        /\ \A j \in 1..Len(pt.conns) :
              pt.conns[j] # w.pind => ~CosGreater(dirOf(pt.conns[j]), dirOf(c), parentDir)

\* the point the walk goes to from the branching point of visit k
\* (-1: the walk was cut by an error before it went on)
NextOf(k) ==
    IF k < Len(dec.walk) THEN dec.walk[k + 1].ind
    ELSE IF dec.processing_stack # <<>> /\ ~WalkCut
    THEN dec.processing_stack[Len(dec.processing_stack)][2]
    ELSE -1

\* the neighbour of smallest angle is the next point of the same neurite
ContinuesCurrent(k) ==
    LET w == dec.walk[k]
    IN  IF k < Len(dec.walk)
        THEN /\ SmallestAngle(w, dec.walk[k + 1].ind)
             /\ dec.walk[k + 1] = [pind |-> w.ind, ind |-> dec.walk[k + 1].ind,
                                   nid |-> w.nid, at |-> w.at + 1]
             /\ dec.vPosOut[w.nid + 1][w.at + 2] = dec.walk[k + 1].ind
        ELSE \/ WalkCut
             \/ /\ dec.processing_stack # <<>>
                /\ dec.processing_stack[Len(dec.processing_stack)][1] = w.ind
                /\ SmallestAngle(w, NextOf(k))

\* every other neighbour but the parent is waiting on the stack, or is the
\* first point after the branching point's copy in another neurite
StartsNew(k) ==
    LET w == dec.walk[k]
        pt == dec.vPoints[w.ind + 1]
    IN  \A i \in 1..Len(pt.conns) :
          LET c == pt.conns[i]
          IN  \/ c = w.pind
              \/ c = NextOf(k)
              \/ WalkCut
              \/ \E n \in 1..Len(dec.processing_stack) :
                    dec.processing_stack[n] = <<w.ind, c>>
              \/ \E j \in (k + 1)..Len(dec.walk) :
                    /\ dec.walk[j] = [pind |-> w.ind, ind |-> c, nid |-> dec.walk[j].nid, at |-> 1]
                    /\ dec.walk[j].nid # w.nid
                    /\ SubSeq(dec.vPosOut[dec.walk[j].nid + 1], 1, 2) = <<w.ind, c>>

\* C10: at each branching point the walk reaches, the neighbour of smallest
\* angle with the incoming direction is appended to the current neurite as
\* its next point, and every other neighbour except the one the walk came
\* from becomes the first own point of a new neurite
C10_SmallestAngleContinues ==
    (dec.pc # "idle") =>
        \A k \in 1..Len(dec.walk) :
            DefinedBranching(dec.walk[k]) => ContinuesCurrent(k) /\ StartsNew(k)

\* a finished decomposition in which the walk left a branching point by its
\* second neighbour of two, the one of smaller angle
C10_Witness ==
    /\ dec.pc = "done"
    /\ \E k \in 1..Len(dec.walk) :
          LET w == dec.walk[k]
              pt == dec.vPoints[w.ind + 1]
              choice == BranchChoice(dec.vPoints, w.ind, w.pind)
          IN  /\ DefinedBranching(w)
              /\ k < Len(dec.walk)
              /\ BranchOthers(pt, choice) # {}
              /\ \E i \in BranchOthers(pt, choice) : i < choice.minAngleInd

\* the points (0-based) that are reached from a set of points through conns
RECURSIVE ConnClosure(_, _)
ConnClosure(vPoints, set) ==
    LET more == set \cup UNION { { vPoints[i + 1].conns[j] :
                                     j \in 1..Len(vPoints[i + 1].conns) } : i \in set }
    IN  IF more = set THEN set ELSE ConnClosure(vPoints, more)

\* the points connected to some soma-typed point
SomaConnected(vPoints) ==
    ConnClosure(vPoints, { i \in 0..(Len(vPoints) - 1) : vPoints[i + 1].type = "SWC_SOMA" })

\* C12 (as stated): the decomposition returns a result only for point lists
\* in which every point is connected, through the adjacency, to a soma-typed
\* point; any other list makes it fail with an error
C12_UnconnectedPointFails ==
    (dec.pc = "done") =>
        \A i \in 0..(Len(dec.vPoints) - 1) : i \in SomaConnected(dec.vPoints)


\* the neurites that some branching point record lists as a child
ChildNeurites ==
    UNION { UNION { { dec.vBPInfoOut[n][e].second[k] :
                        k \in 1..Len(dec.vBPInfoOut[n][e].second) } :
                    e \in 1..Len(dec.vBPInfoOut[n]) } :
            n \in 1..Len(dec.vBPInfoOut) }

\* the soma points reached from a set of soma points through soma points
RECURSIVE SomaRegion(_, _)
SomaRegion(vPoints, set) ==
    LET more == set \cup UNION { { c \in { vPoints[i + 1].conns[j] :
                                            j \in 1..Len(vPoints[i + 1].conns) } :
                                     vPoints[c + 1].type = "SWC_SOMA" } : i \in set }
    IN  IF more = set THEN set ELSE SomaRegion(vPoints, more)

\* a forest in which every component has one connected soma region
OneSomaRegionEach(vPoints) ==
    /\ ~HasCycle(vPoints)
    /\ \A i \in 0..(Len(vPoints) - 1) :
          LET somas == { s \in ConnClosure(vPoints, {i}) : vPoints[s + 1].type = "SWC_SOMA" }
          IN  /\ somas # {}
              /\ \A s \in somas : somas \subseteq SomaRegion(vPoints, {s})

\* the places <<n, k>> of vPosOut that hold point i as an own point: all
\* entries but the first one of a child neurite
OwnPlaces(i) ==
    { p \in (0..(Len(dec.vPosOut) - 1)) \X (1..Len(dec.vPoints)) :
        /\ p[2] <= Len(dec.vPosOut[p[1] + 1])
        /\ dec.vPosOut[p[1] + 1][p[2]] = i
        /\ ~(p[2] = 1 /\ p[1] \in ChildNeurites) }

\* C26 (as stated): after the decomposition of a forest in which every
\* component has one connected soma region, every non-soma point occurs
\* exactly once as an own point of exactly one neurite, and the only other
\* entries are the copies of the parent's branching point placed first in
\* each branch neurite
C26_EveryPointOnce ==
    (dec.pc \in {"done", "ub"} /\ OneSomaRegionEach(dec.vPoints)) =>
        /\ dec.pc = "done"
        /\ \A i \in 0..(Len(dec.vPoints) - 1) :
              dec.vPoints[i + 1].type # "SWC_SOMA" => Cardinality(OwnPlaces(i)) = 1
        /\ \A n \in ChildNeurites :
              /\ n < Len(dec.vPosOut)
              /\ dec.vPosOut[n + 1] # <<>>
              /\ \E m \in 0..(Len(dec.vBPInfoOut) - 1) :
                    \E e \in 1..Len(dec.vBPInfoOut[m + 1]) :
                        LET bp == dec.vBPInfoOut[m + 1][e]
                        IN  /\ \E k \in 1..Len(bp.second) : bp.second[k] = n
                            /\ dec.vPosOut[n + 1][1] = dec.vPosOut[m + 1][bp.first + 1]

\* the neurites that start at a soma: not a child of a branching point, and
\* the first point has a soma point among its neighbours
SomaNeurites ==
    { n \in 0..(Len(dec.vPosOut) - 1) :
        /\ dec.vPosOut[n + 1] # <<>>
        /\ n \notin ChildNeurites
        /\ LET pt == dec.vPoints[dec.vPosOut[n + 1][1] + 1]
           IN  \E j \in 1..Len(pt.conns) : dec.vPoints[pt.conns[j] + 1].type = "SWC_SOMA" }

\* C27 (as stated): after the decomposition every entry of the list of root
\* neurite indices is the index of an existing, non-empty neurite, and the
\* list holds exactly the neurites whose first point is attached to a soma
\* point, also when some soma has no neurite attached
C27_RootIndicesAreRootNeurites ==
    (dec.pc = "done") =>
        /\ \A k \in 1..Len(dec.vRootNeuriteIndsOut) :
              /\ dec.vRootNeuriteIndsOut[k] < Len(dec.vPosOut)
              /\ dec.vPosOut[dec.vRootNeuriteIndsOut[k] + 1] # <<>>
        /\ { dec.vRootNeuriteIndsOut[k] : k \in 1..Len(dec.vRootNeuriteIndsOut) } = SomaNeurites
-----------------------------------------------------------------------------
(* create_spline_data_for_neurites, run on the lists the decomposition     *)
(* returned (vPos holds point indices; the coordinates are looked up)      *)

MaxSplPts == 6

\* resolution of a distance between two points
DRes == 2 * 5

SplLayouts ==
    { << <<0, 0>>, <<1, 0>>, <<2, 0>>, <<3, 0>>, <<2, 1>>, <<2, -1>>, <<3, 1>> >>,
      << <<0, 0>>, <<1, 0>>, <<1, 0>>, <<1, 0>>, <<2, 0>>, <<1, 1>>, <<3, 0>> >> }

\* one soma record followed by dendrite records
SplFiles ==
    UNION { { [k \in 1..n |->
                 [tokens |-> 7, index |-> k - 1, type |-> IF k = 1 THEN 1 ELSE 3,
                  coords |-> lay[k], radius |-> k, conn |-> par[k]]] :
              par \in DecParents(n), lay \in SplLayouts } : n \in 1..MaxSplPts }

VecDistance(a, b) ==
    LET d == VecSubtract(a, b) IN Isqrt(VecProd(d, d) * DRes * DRes)

\* a parameter value num/den; 0/0 is NaN
TOne == [num |-> 1, den |-> 1]
TZero == [num |-> 0, den |-> 1]
IsNaN(t) == t.den = 0
TEq(a, b) == ~IsNaN(a) /\ ~IsNaN(b) /\ a.num * b.den = b.num * a.den

\* a difference of two parameter values is neither 0 nor NaN
DiffRegular(a, b) == ~IsNaN(a) /\ ~IsNaN(b) /\ ~TEq(a, b)

\* totalLength after the first i distances
RECURSIVE PathLength(_, _)
PathLength(pos, i) ==
    IF i = 0 THEN 0 ELSE PathLength(pos, i - 1) + VecDistance(pos[i], pos[i + 1])

\* tSuppPos[i] = length up to point i / totalLength, tSuppPos[nVrt-1] = 1.0
TSuppPos(pos) ==
    LET nVrt == Len(pos)
        totalLength == PathLength(pos, nVrt - 1)
    IN  [i \in 1..nVrt |->
            IF i = nVrt THEN TOne
            ELSE [num |-> IF totalLength = 0 THEN 0 ELSE PathLength(pos, i - 1),
                  den |-> totalLength]]

\* every entry mat(i,i+1) = dt[i+1]/h2, mat(i,i-1) = dt[i]/h2 is finite
MatrixFinite(ts) ==
    \A i \in 2..(Len(ts) - 1) : DiffRegular(ts[i + 1], ts[i - 1])

\* Invert(mat): a finite moment matrix is strictly diagonally dominant
\* (2 on the diagonal, off-diagonal entries of a row summing to 1), so it is
\* inverted; what Invert answers for a matrix holding NaN is not fixed here
InvertOutcomes(ts) == IF MatrixFinite(ts) THEN {TRUE} ELSE {TRUE, FALSE}

\* every right-hand side entry 6/h2 * (dpos/dt[i+1] - dpos/dt[i]) is finite
RhsFinite(ts) ==
    \A i \in 2..(Len(ts) - 1) :
        /\ DiffRegular(ts[i + 1], ts[i - 1])
        /\ DiffRegular(ts[i + 1], ts[i])
        /\ DiffRegular(ts[i], ts[i - 1])

\* Section(tSuppPos[i+1]) with its spline parameters for the points i, i+1
\* (1-based i, i+1 here) of the points pts of the neurite; finite: none of
\* param[0], param[1], param[2] is NaN or infinite; param3: param[3] of the
\* three coordinates and of the radius
SectionOf(ts, pts, i) ==
    [endParam |-> ts[i + 1],
     finite |-> MatrixFinite(ts) /\ RhsFinite(ts) /\ DiffRegular(ts[i + 1], ts[i]),
     param3 |-> [pos |-> pts[i + 1].coords, r |-> pts[i + 1].radius]]

\* the four cubics of a section at the monomial 0: ((s[0]*0 + s[1])*0 +
\* s[2])*0 + s[3], which is NaN as soon as s[0], s[1] or s[2] is not finite
SectionAtEnd(sec) ==
    IF sec.finite THEN [nan |-> FALSE, pos |-> sec.param3.pos, r |-> sec.param3.r]
    ELSE [nan |-> TRUE, pos |-> <<>>, r |-> 0]

\* a default-constructed BranchingRegion: no branching point
\* (set: t has been assigned)
EmptyBR == [t |-> TZero, set |-> FALSE, bp |-> -1]

\* children registered one after the other from the first
RegisterFirstChildOnly(st, bpId, children, k) ==
    IF k > Min(1, Len(children)) THEN st
    ELSE LET childID == children[k]
         IN  IF childID >= Len(st.vNeuritesOut)
             THEN [st EXCEPT !.ub = TRUE]
             ELSE [st EXCEPT
                     !.vNeuritesOut[childID + 1].vBR =
                         [Append(@, [EmptyBR EXCEPT !.bp = bpId])
                            EXCEPT ![1].t = TZero, ![1].set = TRUE],
                     !.bps[bpId].vNid = Append(@, childID),
                     !.bps[bpId].vRegions = Append(@, <<childID, 0>>)]

\* loop over all child neurites starting at this BP, from the k-th
RECURSIVE RegisterChildren(_, _, _, _)
RegisterChildren(st, bpId, children, k) ==
    IF k > Len(children) \/ st.ub THEN st
    ELSE LET childID == children[k]
         IN  IF childID >= Len(st.vNeuritesOut)
             THEN [st EXCEPT !.ub = TRUE]
             ELSE RegisterChildren(
                    [st EXCEPT
                       !.vNeuritesOut[childID + 1].vBR =
                           [Append(@, [EmptyBR EXCEPT !.bp = bpId])
                              EXCEPT ![1].t = TZero, ![1].set = TRUE],
                       !.bps[bpId].vNid = Append(@, childID),
                       !.bps[bpId].vRegions = Append(@, <<childID, 0>>)],
                    bpId, children, k + 1)

\* the loop over the sections of neurite n, from section i (0-based);
\* st holds vNeuritesOut, the branching points made so far, brInd and brIt
RECURSIVE SectionLoop(_, _, _, _, _, _)
SectionLoop(st, n, ts, pts, bpInfo, i) ==
    IF i >= Len(ts) - 1 \/ st.ub THEN st
    ELSE
      LET sec == SectionOf(ts, pts, i + 1)
          atBP == st.brIt < Len(bpInfo) /\ bpInfo[st.brIt + 1].first = i + 1
          bpId == Len(st.bps) + 1
          made == [st EXCEPT
                     !.bps = Append(@, [vNid |-> <<n>>, vRegions |-> << <<n, st.brInd>> >>]),
                     !.vNeuritesOut[n + 1].vBR[st.brInd + 1] =
                         [t |-> ts[i + 2], set |-> TRUE, bp |-> bpId]]
          reg == RegisterChildren(made, bpId, bpInfo[st.brIt + 1].second, 1)
          next == IF atBP
                  THEN [reg EXCEPT !.brInd = @ + 1, !.brIt = @ + 1]
                  ELSE st
      IN  SectionLoop([next EXCEPT !.vNeuritesOut[n + 1].vSec = Append(@, sec)],
                      n, ts, pts, bpInfo, i + 1)

\* the coordinates of neurite n (0-based) as the decomposition stored them
SplPos(n) ==
    [k \in 1..Len(dec.vPosOut[n + 1]) |-> dec.vPoints[dec.vPosOut[n + 1][k] + 1].coords]

\* the points of neurite n with their coordinates and radii: vPos[n], vR[n]
SplPts(n) ==
    [k \in 1..Len(dec.vPosOut[n + 1]) |-> dec.vPoints[dec.vPosOut[n + 1][k] + 1]]

SplInit ==
    /\ dec \in { DecStart(ImportAll(ImportStart, f).vPointsOut) : f \in SplFiles }
    /\ imp = Idle /\ spl = Idle /\ rsm = Idle /\ bld = Idle /\ ang = Idle /\ vdcc = Idle

\* the call after the decomposition returned: vNeuritesOut.resize(nNeurites)
SplCall ==
    /\ dec.pc = "done"
    /\ spl.pc = "idle"
    /\ spl' = [pc |-> "fit", n |-> 0,
               vNeuritesOut |-> [k \in 1..Len(dec.vPosOut) |-> [vSec |-> <<>>, vBR |-> <<>>]],
               bps |-> <<>>, brInd |-> 0, brIt |-> 0, ub |-> FALSE, err |-> "none"]
    /\ UNCHANGED <<imp, dec, rsm, bld, ang, vdcc>>

\* one pass of the loop over the neurites
SplFitNeurite ==
    /\ spl.pc = "fit"
    /\ spl.n < Len(dec.vPosOut)
    /\ LET n == spl.n
           pos == SplPos(n)
           bpInfo == dec.vBPInfoOut[n + 1]
           ts == TSuppPos(pos)
           brInd == Len(spl.vNeuritesOut[n + 1].vBR)
           sized == [spl EXCEPT
                       !.brInd = brInd, !.brIt = 0,
                       !.vNeuritesOut[n + 1].vBR =
                           @ \o [k \in 1..Len(bpInfo) |-> EmptyBR]]
           fitted == SectionLoop(sized, n, ts, SplPts(n), bpInfo, 0)
       IN  IF Len(pos) = 0
           THEN spl' = [spl EXCEPT !.pc = "ub", !.err = "nVrt-1 wraps around"]
           ELSE \E inverted \in InvertOutcomes(ts) :
                  IF ~inverted
                  THEN spl' = [spl EXCEPT !.pc = "throw",
                                          !.err = "Failed to invert moment matrix"]
                  ELSE IF fitted.ub
                  THEN spl' = [fitted EXCEPT !.pc = "ub", !.err = "child neurite index"]
                  ELSE spl' = [fitted EXCEPT !.n = @ + 1]
    /\ UNCHANGED <<imp, dec, rsm, bld, ang, vdcc>>

\* the loop over the neurites is through
SplReturn ==
    /\ spl.pc = "fit"
    /\ spl.n = Len(dec.vPosOut)
    /\ spl' = [spl EXCEPT !.pc = "done"]
    /\ UNCHANGED <<imp, dec, rsm, bld, ang, vdcc>>

SplNext == DecNext \/ SplCall \/ SplFitNeurite \/ SplReturn

SpecSpline == SplInit /\ [][SplNext]_vars

\* ---- claims about the spline fit ----

\* C5 as stated: every BranchingPoint created has exactly two participants,
\* one parent and one child neurite: its participant-id list and its
\* region-pointer list both have length 2
C5_ExactlyTwoParticipants ==
    (spl.pc # "idle") =>
        \A b \in 1..Len(spl.bps) :
            Len(spl.bps[b].vNid) = 2 /\ Len(spl.bps[b].vRegions) = 2

\* the branching point records of the finished neurites, in creation order
\* of their branching points: those reached by the section loop
FittedBPInfo(n) ==
    SelectSeq(dec.vBPInfoOut[n + 1], LAMBDA e : e.first >= 1 /\ e.first < Len(dec.vPosOut[n + 1]))

\* C5 amended: every BranchingPoint created has the parent neurite followed
\* by all child neurites the decomposition listed for that point as its
\* participants, one or more children, and one region per participant that
\* points back to it
C5_ParentAndAllChildren ==
    (spl.pc # "idle") =>
        \A b \in 1..Len(spl.bps) :
            LET bp == spl.bps[b]
                n == bp.vNid[1]
            IN  /\ Len(bp.vNid) = Len(bp.vRegions)
                /\ Len(bp.vNid) >= 2
                /\ \E e \in 1..Len(dec.vBPInfoOut[n + 1]) :
                      bp.vNid = <<n>> \o dec.vBPInfoOut[n + 1][e].second
                /\ \A k \in 1..Len(bp.vNid) :
                      /\ bp.vRegions[k][1] = bp.vNid[k]
                      /\ spl.vNeuritesOut[bp.vNid[k] + 1].vBR[bp.vRegions[k][2] + 1].bp = b

\* a finished fit with a branching point of three participants
C5_Witness ==
    /\ spl.pc = "done"
    /\ \E b \in 1..Len(spl.bps) : Len(spl.bps[b].vNid) = 3

\* fewer than 2 points, or two consecutive points with identical coordinates
Degenerate(pos) ==
    \/ Len(pos) < 2
    \/ \E k \in 1..(Len(pos) - 1) : pos[k] = pos[k + 1]

\* C8: spline fitting fails with an error, producing no Sections, for any
\* neurite that has fewer than 2 points or two consecutive points with
\* identical coordinates: no such neurite is ever passed by the loop
C8_DegenerateNeuriteFails ==
    (spl.pc \in {"fit", "done"}) =>
        \A n \in 0..(spl.n - 1) : ~Degenerate(SplPos(n))

\* a < b for two parameter values, FALSE if one of them is NaN
TLess(a, b) == ~IsNaN(a) /\ ~IsNaN(b) /\ a.num * b.den < b.num * a.den

\* the sections cut [0,1] into intervals of positive length
PartitionsUnitInterval(vSec) ==
    /\ Len(vSec) >= 1
    /\ TLess(TZero, vSec[1].endParam)
    /\ \A i \in 1..(Len(vSec) - 1) : TLess(vSec[i].endParam, vSec[i + 1].endParam)
    /\ TEq(vSec[Len(vSec)].endParam, TOne)

\* C15 (as stated): for every neurite the spline fit has produced, the end
\* parameters of its Sections are strictly increasing and the last one is
\* 1.0, so the sections partition [0,1] without gap or overlap
C15_SectionsPartition ==
    (spl.pc \in {"fit", "done"}) =>
        \A n \in 0..(spl.n - 1) : PartitionsUnitInterval(spl.vNeuritesOut[n + 1].vSec)

\* C16 (as stated): for every fitted neurite and every section i, the four
\* cubics of the section evaluated at its t_end (monomial 0) give the input
\* position and the input radius of support point i+1
C16_SectionEndsAtSupportPoint ==
    (spl.pc \in {"fit", "done"}) =>
        \A n \in 0..(spl.n - 1) :
            \A i \in 1..Len(spl.vNeuritesOut[n + 1].vSec) :
                LET e == SectionAtEnd(spl.vNeuritesOut[n + 1].vSec[i])
                    pt == dec.vPoints[dec.vPosOut[n + 1][i + 1] + 1]
                IN  ~e.nan /\ e.pos = pt.coords /\ e.r = pt.radius


\* C21 (as stated): in the list of branching regions of every neurite the
\* regions appear in strictly increasing t, and the first entry of a child
\* neurite is its connecting region with t = 0
C21_RegionsIncreasing ==
    (spl.pc = "done") =>
        \A n \in 0..(Len(spl.vNeuritesOut) - 1) :
            LET vBR == spl.vNeuritesOut[n + 1].vBR
            IN  /\ \A k \in 1..Len(vBR) : vBR[k].set
                /\ \A k \in 1..(Len(vBR) - 1) : TLess(vBR[k].t, vBR[k + 1].t)
                /\ n \in ChildNeurites =>
                      /\ Len(vBR) >= 1
                      /\ TEq(vBR[1].t, TZero)
                      /\ vBR[1].bp >= 1
                      /\ spl.bps[vBR[1].bp].vNid[1] # n

\* C25 (as stated): for every branching point record (point index, child
\* neurites) the decomposition stored for a neurite, index 0 included, the
\* spline fit creates exactly one BranchingPoint whose participants are the
\* neurite followed by the listed children, and every BranchingRegion of
\* every neurite has a BranchingPoint
C25_EveryRecordGetsItsPoint ==
    (spl.pc = "done") =>
        \A n \in 0..(Len(spl.vNeuritesOut) - 1) :
            /\ \A e \in 1..Len(dec.vBPInfoOut[n + 1]) :
                  Cardinality({ b \in 1..Len(spl.bps) :
                                  /\ spl.bps[b].vNid = <<n>> \o dec.vBPInfoOut[n + 1][e].second
                                  /\ spl.bps[b].vRegions[1] = <<n, e - 1>> }) = 1
            /\ \A k \in 1..Len(spl.vNeuritesOut[n + 1].vBR) :
                  spl.vNeuritesOut[n + 1].vBR[k].bp >= 1
-----------------------------------------------------------------------------
(* create_neurite, create_neurite_with_er, create_neurite_surf             *)
(* The builders run on a forest of straight neurites: every neurite has    *)
(* MaxSlots+1 sections of equal length, a constant radius and a constant   *)
(* direction; a branching point sits at a section end.  A frame of the     *)
(* stack is one invocation of a builder; vertices are numbered in the      *)
(* order of their creation, aaSurfParams[v] is the attachment of vertex v. *)
(* faces holds the quadrilaterals of the surface grid create_neurite_surf   *)
(* makes, each as the sequence of its four vertices.                        *)

MaxNeurites == 3     \* neurites of the forest
MaxSlots == 2        \* inner points of a neurite, where a child can start

BldVariants == {"vol", "er", "surf"}

\* directions of the neurites, all of norm DirNorm
Dirs == { <<5, 0>>, <<4, 3>>, <<0, 5>> }
DirNorm == 2 + 3

\* neurite_length, the radii a neurite can have (the same at all of its
\* points), anisotropy
NeuriteLength == 2 * 4
BldRadii == {1, 2}
BldAnisotropy == 4 * 5

\* erScaleFactor as a fraction
ErScaleNum == 1 * 1
ErScaleDen == 1 + 1

\* connFaceInd of the branching points of a build
BldSides == {0, 3}

\* 0.5*sqrt(2.0), 1.366 and 0.366 as fractions of FracDen
FracDen == 100 * 100
HalfSqrt2 == 7071
Coeff1366 == 13660
Coeff0366 == 3660

\* x * c / FracDen without leaving the 32-bit range
ScaleFrac(x, c) == (x \div FracDen) * c + RDiv((x % FracDen) * c, FracDen)

VecCross2(a, b) == a[1] * b[2] - a[2] * b[1]

\* numbers that may be infinite or NaN
Fin(v) == [k |-> "fin", v |-> v]
PInf == [k |-> "inf", v |-> 1]
NInf == [k |-> "inf", v |-> -1]
NaN == [k |-> "nan", v |-> 0]
IsFin(x) == x.k = "fin"

ExtLess(a, b) ==
    IF a.k = "nan" \/ b.k = "nan" THEN FALSE
    ELSE IF a.k = b.k THEN a.v < b.v
    ELSE IF a.k = "inf" THEN a.v < 0
    ELSE b.v > 0

ExtMin(a, b) == IF ExtLess(b, a) THEN b ELSE a   \* std::min(a, b)
ExtMax(a, b) == IF ExtLess(a, b) THEN b ELSE a   \* std::max(a, b)

ExtAdd(a, b) ==
    IF a.k = "nan" \/ b.k = "nan" THEN NaN
    ELSE IF a.k = "fin" /\ b.k = "fin" THEN Fin(a.v + b.v)
    ELSE IF a.k = "inf" /\ b.k = "inf" THEN (IF a.v = b.v THEN a ELSE NaN)
    ELSE IF a.k = "inf" THEN a
    ELSE b

ExtNeg(a) == IF a.k = "nan" THEN a ELSE [a EXCEPT !.v = -a.v]

\* a length of num/den length units as a parameter difference x / neurite_length
LenToT(num, den) == RDiv(num * (TRes \div NeuriteLength), den)

\* the key of the branching point of neurite p at slot s
BPKey(p, s) == p * (MaxSlots + 1) + s

\* sections of a straight neurite of radius r
StraightSections(r) ==
    [k \in 1..(MaxSlots + 1) |->
        LinearSection((k * TRes) \div (MaxSlots + 1), NeuriteLength, r)]

\* the forest spline fitting makes of n straight neurites, neurite k (k > 0)
\* starting at slot slot[k] of neurite par[k]; vR holds the radii of the
\* points of a neurite
ForestOf(n, par, slot, dir, rad) ==
    LET children(p, sl) == { k \in 1..(n - 1) : par[k] = p /\ slot[k] = sl }
        slotsOf(p) == { sl \in 1..MaxSlots : children(p, sl) # {} }
        own(p) == LET ss == SortedSeq(slotsOf(p))
                  IN  [j \in 1..Len(ss) |->
                          [t |-> StraightSections(rad[p + 1])[ss[j]].endParam,
                           bp |-> BPKey(p, ss[j])]]
        used == UNION { { BPKey(p, sl) : sl \in slotsOf(p) } : p \in 0..(n - 1) }
    IN  [vNeurites |->
            [k \in 1..n |->
                [vSec |-> StraightSections(rad[k]),
                 vR |-> [j \in 1..(MaxSlots + 2) |-> rad[k]],
                 dir |-> dir[k],
                 vBR |-> IF k = 1 THEN own(0)
                         ELSE << [t |-> 0, bp |-> BPKey(par[k - 1], slot[k - 1])] >> \o own(k - 1)]],
         bps |-> [b \in used |->
                    LET p == b \div (MaxSlots + 1)
                        sl == b % (MaxSlots + 1)
                    IN  [vNid |-> <<p>> \o SortedSeq(children(p, sl))]]]

BldForests ==
    UNION { { ForestOf(n, par, slot, dir, rad) :
                par \in { f \in [1..(n - 1) -> 0..(n - 1)] : \A k \in 1..(n - 1) : f[k] < k },
                slot \in [1..(n - 1) -> 1..MaxSlots],
                dir \in [1..n -> Dirs],
                rad \in [1..n -> BldRadii] } : n \in 1..MaxNeurites }

\* calculate_segment_axial_positions: the loop from section sec_it (0-based)
\* on; the result is [throw, oob, seg, out, integral]
RECURSIVE SegAxPosLoop(_, _, _, _, _, _, _, _)
SegAxPosLoop(vSec, sec_it, t_start, t_end, integral, seg, out, segLength) ==
    IF sec_it = Len(vSec)
    THEN [throw |-> FALSE, oob |-> FALSE, seg |-> seg, out |-> out, integral |-> integral]
    ELSE
      LET sec == vSec[sec_it + 1]
          sec_tstart == Max(t_start, SecStart(vSec, sec_it))
          sec_tend == Min(t_end, sec.endParam)
          dt == sec_tend - sec_tstart
      IN  IF QuadThrows(sec, sec_tstart, dt)
          THEN [throw |-> TRUE, oob |-> FALSE, seg |-> seg, out |-> out, integral |-> integral]
          ELSE
            LET sec_integral == QuadSum(sec, sec_tstart, dt)
                next == integral + dt * sec_integral
                w == InnerLoop(seg, out, next, integral, t_start, sec_integral, segLength)
            IN  IF w.oob
                THEN [throw |-> FALSE, oob |-> TRUE, seg |-> w.seg, out |-> w.out,
                      integral |-> next]
                ELSE IF sec_tend >= t_end
                THEN [throw |-> FALSE, oob |-> FALSE, seg |-> w.seg, out |-> w.out,
                      integral |-> next]
                ELSE SegAxPosLoop(vSec, sec_it + 1, sec_tend, t_end, next, w.seg, w.out,
                                  segLength)

\* the whole function on a vector of nSeg zeros; the result is [throw, oob, out]
calculate_segment_axial_positions(nSeg, t_start, t_end, vSec, startSec, segLength) ==
    IF WrongSection(vSec, startSec, t_start)
    THEN [throw |-> TRUE, oob |-> FALSE, out |-> <<>>]
    ELSE
      LET w == SegAxPosLoop(vSec, startSec, t_start, t_end, 0, 0,
                            [i \in 1..nSeg |-> 0], segLength)
      IN  IF w.throw \/ w.oob THEN [throw |-> w.throw, oob |-> w.oob, out |-> w.out]
          ELSE IF RoundingCorrection(w.seg, nSeg, segLength, w.integral)
          THEN [throw |-> FALSE, oob |-> FALSE, out |-> [w.out EXCEPT ![nSeg] = t_end]]
          ELSE [throw |-> FALSE, oob |-> FALSE, out |-> w.out]

\* vVrt.resize(4) / vVrt.resize(16)
RingSize(variant) == IF variant = "er" THEN 16 ELSE 4

\* bpTPos - sec.endParam < 1e-6*bpTPos    (bpTPos >= 0)
ReachesBP(bpTPos, endParam) ==
    bpTPos - endParam < 0 \/ bpTPos - endParam <= (bpTPos - 1) \div RelTolInv

\* the first section from curSec on that reaches bpTPos (nSec if there is none)
RECURSIVE BrSecOf(_, _, _)
BrSecOf(vSec, brSec, bpTPos) ==
    IF brSec >= Len(vSec) THEN Len(vSec)
    ELSE IF ReachesBP(bpTPos, vSec[brSec + 1].endParam) THEN brSec
    ELSE BrSecOf(vSec, brSec + 1, bpTPos)

\* for (; curSec < nSec; ++curSec) if (sec.endParam >= pos) break;
RECURSIVE AdvanceSec(_, _, _)
AdvanceSec(vSec, curSec, pos) ==
    IF curSec >= Len(vSec) THEN Len(vSec)
    ELSE IF vSec[curSec + 1].endParam >= pos THEN curSec
    ELSE AdvanceSec(vSec, curSec + 1, pos)

\* rad * sinAlphaInv, with sinAlphaInv = 1.0 / sqrt(1.0 - brScProd*brScProd),
\* divided by neurite_length
RadOverSin(rad, neuriteDir, branchDir) ==
    LenToT(rad * DirNorm * DirNorm, Abs(VecCross2(neuriteDir, branchDir)))

\* rad * brScProd * sinAlphaInv, divided by neurite_length
RadCot(rad, neuriteDir, branchDir) ==
    LenToT(rad * VecProd(neuriteDir, branchDir), Abs(VecCross2(neuriteDir, branchDir)))

\* the three lengths of a branch, for the radius bpRad of the parent at the
\* branching point, the radius brRadSeg1 of the first point of the child, the
\* parent's and the child's direction; the lengths are divided by
\* neurite_length: surfBPoffset, surfBPhalfLength, branchOffset[br]
BranchLengthsChildRad(variant, bpRad, brRadSeg1, neuriteDir, branchDir) ==
    IF VecCross2(neuriteDir, branchDir) = 0
    THEN [surfBPoffset |-> IF VecProd(neuriteDir, branchDir) > 0 THEN PInf ELSE NInf,
          surfBPhalfLength |-> PInf,
          branchOffset |-> PInf]
    ELSE [surfBPoffset |->
              Fin(ScaleFrac(RadCot(brRadSeg1, neuriteDir, branchDir), HalfSqrt2)),
          surfBPhalfLength |->
              IF variant = "surf"
              THEN Fin(ScaleFrac(RadOverSin(brRadSeg1, neuriteDir, branchDir), HalfSqrt2))
              ELSE Fin(RadOverSin(brRadSeg1, neuriteDir, branchDir)),
          branchOffset |->
              Fin(ScaleFrac(RadOverSin(bpRad, neuriteDir, branchDir), HalfSqrt2))]

BranchLengths(variant, bpRad, brRadSeg1, neuriteDir, branchDir) ==
    IF VecCross2(neuriteDir, branchDir) = 0
    THEN [surfBPoffset |-> IF VecProd(neuriteDir, branchDir) > 0 THEN PInf ELSE NInf,
          surfBPhalfLength |-> PInf,
          branchOffset |-> PInf]
    ELSE [surfBPoffset |->
              Fin(ScaleFrac(RadCot(bpRad, neuriteDir, branchDir), HalfSqrt2)),
          surfBPhalfLength |->
              IF variant = "surf"
              THEN Fin(ScaleFrac(RadOverSin(brRadSeg1, neuriteDir, branchDir), HalfSqrt2))
              ELSE Fin(RadOverSin(brRadSeg1, neuriteDir, branchDir)),
          branchOffset |->
              Fin(ScaleFrac(RadOverSin(bpRad, neuriteDir, branchDir), HalfSqrt2))]

\* the loop over the branches br = 1..nBranches-1 of a branching point, from
\* branch br on; g holds bp_start, bp_end, surfBPoffset, branchOffset
RECURSIVE BranchLoop(_, _, _, _, _, _, _, _)
BranchLoop(variant, vNeurites, nid, vNid, bpTPos, brSec, br, g) ==
    IF br >= Len(vNid) THEN g
    ELSE
      LET brInd == vNid[br + 1]
          brRadSeg1 == vNeurites[brInd + 1].vR[1]
          bpRad == vNeurites[nid + 1].vR[brSec + 2]
          l == BranchLengths(variant, bpRad, brRadSeg1, vNeurites[nid + 1].dir,
                             vNeurites[brInd + 1].dir)
          lo == IF variant = "er" THEN ExtNeg(l.surfBPhalfLength)
                ELSE ExtAdd(l.surfBPoffset, ExtNeg(l.surfBPhalfLength))
          hi == IF variant = "er" THEN l.surfBPhalfLength
                ELSE ExtAdd(l.surfBPoffset, l.surfBPhalfLength)
      IN  BranchLoop(variant, vNeurites, nid, vNid, bpTPos, brSec, br + 1,
            [bp_start |-> ExtMin(g.bp_start, ExtAdd(Fin(bpTPos), lo)),
             bp_end |-> ExtMax(g.bp_end, ExtAdd(Fin(bpTPos), hi)),
             surfBPoffset |-> l.surfBPoffset,
             branchOffset |-> Append(g.branchOffset, l.branchOffset)])

\* number bp_start = 1.0; number bp_end = 0.0; branchOffset.resize(.., 0.0)
NoBranch ==
    [bp_start |-> Fin(TRes), bp_end |-> Fin(0), surfBPoffset |-> Fin(0),
     branchOffset |-> <<Fin(0)>>]

\* (brit - vBR.begin()) << 20  and  1 << 28
Shift20 == 1024 * 1024
Shift28 == 256 * Shift20
BranchTag(britInd) == britInd * Shift20 + Shift28

\* g.create<RegularVertex>() n times, each with the given attachment
CreateVertices(sp, n, nid, axial) ==
    sp \o [j \in 1..n |-> [neuriteID |-> nid, axial |-> axial]]

\* the vertices created last
NewRing(sp, n) == [j \in 1..n |-> Len(sp) + j]

\* Extrude(g, &vVrt, ...): one new vertex for each vertex of the ring; the
\* callers then set neuriteID and axial of all of them
ExtrudeParams(sp, vVrt, nid, axial) == CreateVertices(sp, Len(vVrt), nid, axial)
ExtrudeRing(sp, vVrt) == NewRing(sp, Len(vVrt))

\* aaSurfParams[v].axial += delta[j] for the vertex v at place j of the ring
AddAxial(sp, ring, delta) ==
    [v \in DOMAIN sp |->
        IF \E j \in 1..Len(ring) : ring[j] = v
        THEN LET j == CHOOSE i \in 1..Len(ring) : ring[i] = v
             IN  [sp[v] EXCEPT !.axial = @ + delta[j]]
        ELSE sp[v]]

\* aaSurfParams[v].neuriteID += tag for the vertices v of a sequence
AddTag(sp, vrts, tag) ==
    [v \in DOMAIN sp |->
        IF \E j \in 1..Len(vrts) : vrts[j] = v
        THEN [sp[v] EXCEPT !.neuriteID = @ + tag]
        ELSE sp[v]]

\* aaSurfParams[v].axial = t for the vertices v of a sequence
SetAxial(sp, vrts, t) ==
    [v \in DOMAIN sp |->
        IF \E j \in 1..Len(vrts) : vrts[j] = v
        THEN [sp[v] EXCEPT !.axial = t]
        ELSE sp[v]]

\* create_neurite, BP segment: axial -= 2.0*surfBPoffset / neurite_length for
\* the ring indices (connFaceInd+2)%4 and (connFaceInd+3)%4
VolAxialDelta(c, off, j) ==
    IF j = (c + 2) % 4 \/ j = (c + 3) % 4 THEN -2 * off ELSE 0

\* a connecting ring made of one edge of the parent's ring only
VolBranchVrtsOneEdge(vVrt, vNewVrt, c) ==
    << vVrt[((c + 1) % 4) + 1], vVrt[c + 1] >>

\* create_neurite: vBranchVrts[0..3]
VolBranchVrts(vVrt, vNewVrt, c) ==
    << vVrt[((c + 1) % 4) + 1], vNewVrt[((c + 1) % 4) + 1], vNewVrt[c + 1], vVrt[c + 1] >>

\* create_neurite_with_er, BP segment: the change of axial at ring index j
ErAxialDelta(c, off, j) ==
    LET q(k) == (c + k) % 4
        side == (j - 4) \div 3
        r == (j - 4) % 3
        big == ScaleFrac(off, Coeff1366)
        small == ScaleFrac(off, Coeff0366)
    IN  IF j < 4
        THEN IF j \in {q(0), q(1)} THEN RDiv(off * ErScaleNum, ErScaleDen)
             ELSE -RDiv(off * ErScaleNum, ErScaleDen)
        ELSE IF r = 0
        THEN IF side \in {q(0), q(1)} THEN off ELSE -off
        ELSE IF side = q(0) THEN big
        ELSE IF side = q(2) THEN -big
        ELSE IF side = q(1) THEN (IF r = 1 THEN small ELSE -small)
        ELSE (IF r = 1 THEN -small ELSE small)

\* create_neurite_with_er: the neuriteID changes on the rings of a BP segment;
\* outer is TRUE for the ring before the first and after the last extrusion
ErTagRing(sp, ring, c, tag, child_nid, outer) ==
    LET a == ring[4 + 3 * c + 1]
        b == ring[4 + 3 * ((c + 1) % 4) + 1]
        d == ring[5 + 3 * c + 1]
        e == ring[6 + 3 * c + 1]
    IN  IF outer THEN AddTag(sp, <<a, b, d, e>>, tag)
        ELSE [v \in DOMAIN sp |->
                IF v \in {ring[c + 1], ring[((c + 1) % 4) + 1], a, b}
                THEN [sp[v] EXCEPT !.neuriteID = @ + tag]
                ELSE IF v \in {d, e} THEN [sp[v] EXCEPT !.neuriteID = child_nid]
                ELSE sp[v]]

\* create_neurite_with_er: vBranchVrts[0..15] from the ring before the BP
\* segment (r0) and the rings of its three extrusions (r1, r2, r3)
ErBranchVrts(r0, r1, r2, r3, c) ==
    LET a(ring) == ring[4 + 3 * c + 1]
        b(ring) == ring[4 + 3 * ((c + 1) % 4) + 1]
        d(ring) == ring[5 + 3 * c + 1]
        e(ring) == ring[6 + 3 * c + 1]
    IN  << e(r1), e(r2), d(r2), d(r1),
           b(r0), b(r1), b(r2), b(r3), e(r3), d(r3), a(r3), a(r2), a(r1),
           a(r0), d(r0), e(r0) >>

\* create_neurite_surf: the vertices of the side face connFaceInd of the last
\* extrusion, from the ring before it (vPrev) and the ring after it (vVrt)
SurfBranchVrts(vPrev, vVrt, c) ==
    << vPrev[c + 1], vPrev[((c + 1) % 4) + 1], vVrt[((c + 1) % 4) + 1], vVrt[c + 1] >>

\* the state of one invocation of a builder at its entry
NewFrame(nid, vVrt, brit, t_end) ==
    [nid |-> nid, pc |-> "region", brit |-> brit, vVrt |-> vVrt,
     t_start |-> 0, t_end |-> t_end, curSec |-> 0, g |-> NoBranch,
     lengthOverRadius |-> Fin(0), nSeg |-> 0, vSegAxPos |-> <<>>, s |-> 0,
     vPrev |-> <<>>, child_nid |-> -1]

Top == bld.stack[Len(bld.stack)]
SetTop(f) == [bld.stack EXCEPT ![Len(bld.stack)] = f]
Neurite(f) == bld.vNeurites[f.nid + 1]

\* brit != brit_end
HasBranch(f) == f.brit < Len(Neurite(f).vBR)
BranchOf(f) == bld.bps[Neurite(f).vBR[f.brit + 1].bp]

\* vSegAxPos[s] after vSegAxPos[nSeg] = bp_end
SegAxPosAt(f, s) ==
    IF s < Len(f.vSegAxPos) THEN Fin(f.vSegAxPos[s + 1]) ELSE f.g.bp_end

BldInit ==
    /\ bld \in { [pc |-> "start", variant |-> va, vNeurites |-> fo.vNeurites,
                  bps |-> fo.bps, connFaceInd |-> c, stack |-> <<>>,
                  aaSurfParams |-> <<>>, erased |-> {}, faces |-> {}, tips |-> <<>>,
                  returned |-> <<>>] :
                va \in BldVariants, fo \in BldForests, c \in BldSides }
    /\ imp = Idle /\ dec = Idle /\ spl = Idle /\ rsm = Idle /\ ang = Idle /\ vdcc = Idle

\* the call of the builder for the root neurite: the first layer of vertices
BldCallRoot ==
    /\ bld.pc = "start"
    /\ LET n == RingSize(bld.variant)
       IN  bld' = [bld EXCEPT
                     !.pc = "run",
                     !.aaSurfParams = CreateVertices(bld.aaSurfParams, n, 0, 0),
                     !.stack = << NewFrame(0, NewRing(bld.aaSurfParams, n), 0, 0) >>]
    /\ UNCHANGED <<imp, dec, spl, rsm, ang, vdcc>>

\* calculate_length_over_radius for a t_end that may be -inf: the monomial of
\* every quadrature point is then +inf, the radius of a section of constant
\* radius (s[0] = s[1] = s[2] = 0) is 0*inf + s[3] = NaN, the guard
\* r*r <= ... is false and the integral that is returned is NaN
LengthOverRadiusOf(t_start, t_end, vSec, startSec) ==
    IF ~IsFin(t_end) THEN [throw |-> FALSE, value |-> NaN]
    ELSE LET lor == calculate_length_over_radius(t_start, t_end.v, vSec, startSec)
         IN  [throw |-> lor.throw, value |-> Fin(lor.value)]

\* The head of while (true): t_start = t_end, the extent of the next
\* branching point, t_end, the segment count and the axial positions of the
\* segments.  A non-finite length over radius makes the segment count the
\* conversion of a non-finite number, a non-finite bp_end a read of
\* vSec[nSec]: both undefined, pc = "ub".  RegionStart is the builder state
\* after this step.
RegionStart ==
    LET f == Top
        vSec == Neurite(f).vSec
        nb == HasBranch(f)
        t_start == f.t_end
        bpTPos == Neurite(f).vBR[f.brit + 1].t
        vNid == BranchOf(f).vNid
        brSec == BrSecOf(vSec, f.curSec, bpTPos)
        g == IF nb THEN BranchLoop(bld.variant, bld.vNeurites, f.nid, vNid, bpTPos, brSec, 1,
                                   NoBranch)
             ELSE NoBranch
        t_end == IF nb THEN g.bp_start ELSE Fin(TRes)
        f1 == [f EXCEPT !.t_start = t_start, !.g = g]
        lorExt == LengthOverRadiusOf(t_start, t_end, vSec, f.curSec)
        lor == [throw |-> lorExt.throw, value |-> lorExt.value.v]
        f2 == [f1 EXCEPT !.lengthOverRadius = lorExt.value]
        nSeg == NSegOf(lor.value, BldAnisotropy)
        segLength == RDiv(lor.value, nSeg)
        pos == calculate_segment_axial_positions(nSeg, t_start, t_end.v, vSec, f.curSec,
                                                 segLength)
        stop(pc, fr) == [bld EXCEPT !.pc = pc, !.stack = SetTop(fr)]
    IN  IF nb /\ brSec = Len(vSec) THEN stop("throw", f)
        ELSE IF f.curSec >= Len(vSec) THEN stop("ub", f1)
        ELSE IF lor.throw THEN stop("throw", f1)
        ELSE IF ~IsFin(lorExt.value) THEN stop("ub", f2)
        ELSE IF lor.value < 0 THEN stop("ub", f2)
        ELSE IF pos.throw THEN stop("throw", f2)
        ELSE IF pos.oob THEN stop("ub", f2)
        ELSE IF nb /\ bld.variant # "surf" /\ Len(vNid) > 2 THEN stop("throw", f2)
        ELSE IF nb /\ bld.variant # "surf"
                /\ (~IsFin(g.bp_end) \/ AdvanceSec(vSec, f.curSec, g.bp_end.v) = Len(vSec))
        THEN stop("ub", f2)
        ELSE [bld EXCEPT !.stack = SetTop(
                 [f2 EXCEPT !.pc = "seg",
                            !.t_end = t_end.v,
                            !.nSeg = IF nb THEN nSeg + 1 ELSE nSeg,
                            !.vSegAxPos = pos.out,
                            !.s = 0,
                            !.child_nid = IF nb THEN (IF vNid[1] # f.nid THEN vNid[1]
                                                      ELSE vNid[2])
                                          ELSE -1])]

\* one pass through the head of the region loop
BldRegionStart ==
    /\ bld.pc = "run"
    /\ Top.pc = "region"
    /\ bld' = RegionStart
    /\ UNCHANGED <<imp, dec, spl, rsm, ang, vdcc>>

\* Extrude(g, &vVrt, &vEdge, NULL, vel, aaPos, EO_CREATE_FACES, NULL): the
\* four faces between the ring vPrev and the ring vVrt extruded from it
SideFaces(vPrev, vVrt) == { SurfBranchVrts(vPrev, vVrt, c) : c \in 0..3 }

\* what follows segment s of the segment loop
AfterSegment(f, s) ==
    IF s + 1 < f.nSeg THEN "seg"
    ELSE IF bld.variant = "surf" /\ HasBranch(f) THEN "connect"
    ELSE "end"

\* a usual segment (in create_neurite_surf: every segment): extrude the ring
\* to the axial position of the segment end
BldSegment ==
    /\ bld.pc = "run"
    /\ Top.pc = "seg"
    /\ bld.variant = "surf" \/ Top.s # Top.nSeg - 1 \/ ~HasBranch(Top)
    /\ LET f == Top
           vSec == Neurite(f).vSec
           segAxPos == SegAxPosAt(f, f.s)
           curSec == AdvanceSec(vSec, f.curSec, segAxPos.v)
       IN  IF ~IsFin(segAxPos) \/ curSec = Len(vSec)
           THEN bld' = [bld EXCEPT !.pc = "ub"]
           ELSE bld' = [bld EXCEPT
                          !.aaSurfParams = ExtrudeParams(bld.aaSurfParams, f.vVrt, f.nid,
                                                         segAxPos.v),
                          !.faces = IF bld.variant = "surf"
                                    THEN @ \cup SideFaces(f.vVrt,
                                                          ExtrudeRing(bld.aaSurfParams, f.vVrt))
                                    ELSE @,
                          !.stack = SetTop(
                              [f EXCEPT !.pc = AfterSegment(f, f.s),
                                        !.curSec = curSec,
                                        !.vPrev = f.vVrt,
                                        !.vVrt = ExtrudeRing(bld.aaSurfParams, f.vVrt),
                                        !.s = f.s + 1])]
    /\ UNCHANGED <<imp, dec, spl, rsm, ang, vdcc>>

\* the entry of a builder with connectingVrts: ++brit, t_end = initialOffset /
\* neurite_length; create_neurite_with_er also sets axial of connectingVrts[0..3]
ChildFrame(child_nid, vBranchVrts, initialOffset) ==
    NewFrame(child_nid, vBranchVrts, 1, initialOffset)

ChildParams(sp, vBranchVrts, initialOffset) ==
    IF bld.variant = "er" THEN SetAxial(sp, SubSeq(vBranchVrts, 1, 4), initialOffset)
    ELSE sp

\* create_neurite, BP segment: four new vertices, the offsets of the
\* non-connecting vertices, the branch vertices and the recursive call
VolBranch(f) ==
    LET c == bld.connFaceInd
        segAxPos == f.g.bp_end.v
        off == f.g.surfBPoffset.v
        sp1 == CreateVertices(bld.aaSurfParams, 4, f.nid, segAxPos)
        vNewVrt == NewRing(bld.aaSurfParams, 4)
        delta == [j \in 1..4 |-> VolAxialDelta(c, off, j - 1)]
        sp2 == AddAxial(AddAxial(sp1, f.vVrt, delta), vNewVrt, delta)
        vBranchVrts == VolBranchVrts(f.vVrt, vNewVrt, c)
        sp3 == AddTag(sp2, vBranchVrts, BranchTag(f.brit))
    IN  [sp |-> sp3, vBranchVrts |-> vBranchVrts, vPrev |-> vNewVrt, vVrt |-> f.vVrt]

\* create_neurite_with_er, BP segment: three extrusions, each ring with its
\* offsets and neuriteID changes, the branch vertices and the recursive call
ErBranch(f) ==
    LET c == bld.connFaceInd
        off == f.g.surfBPoffset.v
        tag == BranchTag(f.brit)
        last == f.vSegAxPos[f.s]
        cur == f.g.bp_end.v
        den == 2 * ErScaleDen
        first == (ErScaleDen + ErScaleNum) * (last \div den)
                 + (ErScaleDen - ErScaleNum) * (cur \div den)
        second == (ErScaleDen - ErScaleNum) * (last \div den)
                  + (ErScaleDen + ErScaleNum) * (cur \div den)
        delta == [j \in 1..16 |-> ErAxialDelta(c, off, j - 1)]
        r0 == f.vVrt
        sp0 == ErTagRing(AddAxial(bld.aaSurfParams, r0, delta), r0, c, tag, f.child_nid, TRUE)
        r1 == ExtrudeRing(sp0, r0)
        sp1 == ErTagRing(AddAxial(ExtrudeParams(sp0, r0, f.nid, first), r1, delta),
                         r1, c, tag, f.child_nid, FALSE)
        r2 == ExtrudeRing(sp1, r1)
        sp2 == ErTagRing(AddAxial(ExtrudeParams(sp1, r1, f.nid, second), r2, delta),
                         r2, c, tag, f.child_nid, FALSE)
        r3 == ExtrudeRing(sp2, r2)
        sp3 == ErTagRing(AddAxial(ExtrudeParams(sp2, r2, f.nid, cur), r3, delta),
                         r3, c, tag, f.child_nid, TRUE)
    IN  [sp |-> sp3, vBranchVrts |-> ErBranchVrts(r0, r1, r2, r3, c), vPrev |-> r2,
         vVrt |-> r3]

\* the BP segment of create_neurite and create_neurite_with_er up to the
\* entry of the recursive call for the child
BldBranch ==
    /\ bld.pc = "run"
    /\ Top.pc = "seg"
    /\ bld.variant # "surf" /\ Top.s = Top.nSeg - 1 /\ HasBranch(Top)
    /\ LET f == Top
           vSec == Neurite(f).vSec
           curSec == AdvanceSec(vSec, f.curSec, f.g.bp_end.v)
           b == IF bld.variant = "vol" THEN VolBranch(f) ELSE ErBranch(f)
           initialOffset == f.g.branchOffset[2].v
       IN  bld' = [bld EXCEPT
                     !.aaSurfParams = ChildParams(b.sp, b.vBranchVrts, initialOffset),
                     !.stack = Append(
                         SetTop([f EXCEPT !.pc = "resume", !.curSec = curSec,
                                          !.vPrev = b.vPrev, !.vVrt = b.vVrt]),
                         ChildFrame(f.child_nid, b.vBranchVrts, initialOffset))]
    /\ UNCHANGED <<imp, dec, spl, rsm, ang, vdcc>>

\* create_neurite_surf after the segment loop: the side face of the last
\* extrusion that points to the child is erased and its vertices start the child
BldConnect ==
    /\ bld.pc = "run"
    /\ Top.pc = "connect"
    /\ LET f == Top
           vNid == BranchOf(f).vNid
           vrts == SurfBranchVrts(f.vPrev, f.vVrt, bld.connFaceInd)
           initialOffset == f.g.branchOffset[2].v
       IN  IF Len(vNid) > 2
           THEN bld' = [bld EXCEPT !.pc = "throw"]
           ELSE bld' = [bld EXCEPT
                          !.aaSurfParams = AddTag(bld.aaSurfParams, vrts, BranchTag(f.brit)),
                          !.faces = @ \ {vrts},
                          !.stack = Append(SetTop([f EXCEPT !.pc = "resume"]),
                                           ChildFrame(f.child_nid, vrts, initialOffset))]
    /\ UNCHANGED <<imp, dec, spl, rsm, ang, vdcc>>

\* after the return of the recursive call: create_neurite goes on with
\* vVrt.swap(vNewVrt), the other two with the ring of the last extrusion
BldResume ==
    /\ bld.pc = "run"
    /\ Top.pc = "resume"
    /\ LET f == Top
       IN  bld' = [bld EXCEPT !.stack = SetTop(
                      [f EXCEPT !.pc = "end",
                                !.vVrt = IF bld.variant = "vol" THEN f.vPrev ELSE f.vVrt,
                                !.vPrev = IF bld.variant = "vol" THEN f.vVrt ELSE f.vPrev,
                                !.s = f.nSeg])]
    /\ UNCHANGED <<imp, dec, spl, rsm, ang, vdcc>>

\* the tail of while (true): t_end = bp_end, curSec, and break or ++brit
BldRegionEnd ==
    /\ bld.pc = "run"
    /\ Top.pc = "end"
    /\ LET f == Top
           t_end == IF HasBranch(f) THEN f.g.bp_end.v ELSE f.t_end
           curSec == AdvanceSec(Neurite(f).vSec, f.curSec, t_end)
       IN  bld' = [bld EXCEPT !.stack = SetTop(
                      [f EXCEPT !.pc = IF HasBranch(f) THEN "region" ELSE "tip",
                                !.t_end = t_end,
                                !.curSec = curSec,
                                !.brit = IF HasBranch(f) THEN f.brit + 1 ELSE f.brit])]
    /\ UNCHANGED <<imp, dec, spl, rsm, ang, vdcc>>

\* the end of a builder.  create_neurite_surf closes the tip: Extrude,
\* MergeMultipleVertices (all vertices of the ring but the first are erased),
\* axial = 2.0.  create_neurite and create_neurite_with_er return as they are.
BldTip ==
    /\ bld.pc = "run"
    /\ Top.pc = "tip"
    /\ LET f == Top
           ring == ExtrudeRing(bld.aaSurfParams, f.vVrt)
           sp == ExtrudeParams(bld.aaSurfParams, f.vVrt, f.nid, f.t_end)
           v == ring[1]
           rest == SubSeq(bld.stack, 1, Len(bld.stack) - 1)
           closed == bld.variant = "surf"
       IN  bld' = [bld EXCEPT
                     !.pc = IF rest = <<>> THEN "done" ELSE "run",
                     !.stack = rest,
                     !.aaSurfParams = IF closed
                                      THEN [sp EXCEPT ![v] = [neuriteID |-> f.nid,
                                                              axial |-> 2 * TRes]]
                                      ELSE bld.aaSurfParams,
                     !.erased = IF closed THEN @ \cup { ring[j] : j \in 2..Len(ring) } ELSE @,
                     !.faces = IF closed
                               THEN @ \cup SideFaces(f.vVrt, [j \in 1..Len(ring) |-> v])
                               ELSE @,
                     !.tips = IF closed THEN Append(@, [nid |-> f.nid, v |-> v]) ELSE @,
                     !.returned = Append(@, f.nid)]
    /\ UNCHANGED <<imp, dec, spl, rsm, ang, vdcc>>

BldNext ==
    \/ BldCallRoot
    \/ BldRegionStart
    \/ BldSegment
    \/ BldBranch
    \/ BldConnect
    \/ BldResume
    \/ BldRegionEnd
    \/ BldTip

SpecBuild == BldInit /\ [][BldNext]_vars

-----------------------------------------------------------------------------
(* The angular surface parameter.  One invocation of a builder, reduced to *)
(* the statements that compute angleOffset and addOffset and that write    *)
(* aaSurfParams[v].angular.  Angles are integers in units of pi/AngPi.     *)
(* The directions relCoord, which the builders compute from the positions  *)
(* of the vertices and the directions of the neurites, are inputs: the     *)
(* eight directions whose angle is a multiple of pi/4.                     *)

AngPi == 12 * 12
TwoPi == 2 * AngPi
HalfPiAng == AngPi \div 2
QuarterPi == AngPi \div 4

\* usual segments of a region
MaxUsualSeg == 3

RelCoords == { <<x, y>> : x \in -1..1, y \in -1..1 } \ { <<0, 0>> }

\* atan(y/x) for x, y in {-1, 0, 1}, x # 0
Atan(y, x) == y * x * QuarterPi

\* if (fabs(relCoord[0]) < 1e-8) relCoord[1] < 0 ? 1.5*PI : 0.5*PI
\* else relCoord[0] < 0 ? PI - atan(-relCoord[1]/relCoord[0])
\*                      : atan(relCoord[1]/relCoord[0])
AngleOfRelCoord(relCoord) ==
    IF relCoord[1] = 0
    THEN IF relCoord[2] < 0 THEN 3 * HalfPiAng ELSE HalfPiAng
    ELSE IF relCoord[1] < 0 THEN AngPi - Atan(-relCoord[2], relCoord[1])
    ELSE Atan(relCoord[2], relCoord[1])

\* the start angle offset of a builder called with connectingVrts:
\* if (angleOffset < 0) angleOffset += 2.0*PI
StartAngleOffset(relCoord) ==
    IF AngleOfRelCoord(relCoord) < 0 THEN AngleOfRelCoord(relCoord) + TwoPi
    ELSE AngleOfRelCoord(relCoord)

\* angle < 2*PI ? angle : angle - 2*PI
ReduceAngleStrict(angle) == IF angle < TwoPi THEN angle ELSE angle - TwoPi

\* if (angle > 2*PI) angle -= 2*PI;
ReduceAngle(angle) == IF angle > TwoPi THEN angle - TwoPi ELSE angle

\* the angles of the vertices of a ring: 0.5*PI*j + angleOffset for the four
\* vertices, in create_neurite_with_er also PI*(j/6) + angleOffset for the
\* twelve vertices of the outer layer
RingAngles(variant, angleOffset) ==
    [j \in 1..4 |-> ReduceAngle(HalfPiAng * (j - 1) + angleOffset)]
    \o (IF variant = "er"
        THEN [j \in 1..12 |-> ReduceAngle((AngPi * (j - 1)) \div 6 + angleOffset)]
        ELSE <<>>)

\* the first layer of vertices of a root neurite
FirstLayer(variant) ==
    [j \in 1..4 |-> HalfPiAng * (j - 1)]
    \o (IF variant = "er" THEN [j \in 1..12 |-> (AngPi * (j - 1)) \div 6] ELSE <<>>)

\* addOffset of a region that ends at a branching point
AddOffsetOf(relCoord, angleOffset, nSeg) ==
    LET branchOffset == AngleOfRelCoord(relCoord)
        addOffset == branchOffset - angleOffset
        connFaceInd == ((addOffset + 2 * TwoPi) % TwoPi) \div HalfPiAng
        centred == (addOffset - (connFaceInd * HalfPiAng + QuarterPi) + 2 * TwoPi) % TwoPi
    IN  (IF centred > AngPi THEN centred - TwoPi ELSE centred) \div (nSeg - 1)

\* the regions of a neurite: each has some usual segments, all but the last
\* end at a branching point whose child leaves in the direction branch
AngRegions ==
    LET tip == { [nUsual |-> n, branch |-> <<>>] : n \in 1..MaxUsualSeg }
        toBP == { [nUsual |-> n, branch |-> b] : n \in 1..MaxUsualSeg, b \in RelCoords }
    IN  { <<t>> : t \in tip } \cup { <<b, t>> : b \in toBP, t \in tip }

AngInit ==
    /\ ang \in { [pc |-> "enter", variant |-> va, connecting |-> c, regions |-> rs,
                  reg |-> 1, angleOffset |-> 0, addOffset |-> 0, nSeg |-> 0, s |-> 0,
                  angular |-> <<>>] :
                va \in BldVariants, c \in RelCoords \cup { <<>> }, rs \in AngRegions }
    /\ imp = Idle /\ dec = Idle /\ spl = Idle /\ rsm = Idle /\ bld = Idle /\ vdcc = Idle

\* the entry of a builder: with connectingVrts the start angle offset (and in
\* create_neurite_with_er the angular parameter of connectingVrts[0..3]),
\* without them the first layer of vertices
AngEnter ==
    /\ ang.pc = "enter"
    /\ IF ang.connecting # <<>>
       THEN LET angleOffset == StartAngleOffset(ang.connecting)
            IN  ang' = [ang EXCEPT
                          !.pc = "region",
                          !.angleOffset = angleOffset,
                          !.angular = IF ang.variant = "er"
                                      THEN [i \in 1..4 |->
                                              ReduceAngleStrict(HalfPiAng * (i - 1)
                                                                + angleOffset)]
                                      ELSE <<>>]
       ELSE ang' = [ang EXCEPT !.pc = "region", !.angular = FirstLayer(ang.variant)]
    /\ UNCHANGED <<imp, dec, spl, rsm, bld, vdcc>>

\* the head of while (true) up to the segment loop: nSeg and addOffset
\* (create_neurite_surf has no addOffset)
AngRegionStart ==
    /\ ang.pc = "region"
    /\ LET r == ang.regions[ang.reg]
           nSeg == IF r.branch # <<>> THEN r.nUsual + 1 ELSE r.nUsual
       IN  ang' = [ang EXCEPT
                     !.pc = "seg", !.s = 0, !.nSeg = nSeg,
                     !.addOffset = IF r.branch # <<>> /\ ang.variant # "surf"
                                   THEN AddOffsetOf(r.branch, ang.angleOffset, nSeg)
                                   ELSE 0]
    /\ UNCHANGED <<imp, dec, spl, rsm, bld, vdcc>>

\* one segment: a usual segment of create_neurite and create_neurite_with_er
\* first turns angleOffset by addOffset; every segment writes the angles of
\* its new vertices
AngSegment ==
    /\ ang.pc = "seg"
    /\ LET usual == ang.s # ang.nSeg - 1 \/ ang.regions[ang.reg].branch = <<>>
           angleOffset == IF usual /\ ang.variant # "surf"
                          THEN (ang.angleOffset + ang.addOffset + TwoPi) % TwoPi
                          ELSE ang.angleOffset
       IN  ang' = [ang EXCEPT
                     !.angleOffset = angleOffset,
                     !.angular = RingAngles(ang.variant, angleOffset),
                     !.s = @ + 1,
                     !.pc = IF ang.s + 1 = ang.nSeg THEN "end" ELSE "seg"]
    /\ UNCHANGED <<imp, dec, spl, rsm, bld, vdcc>>

\* the tail of while (true): break at the tip, ++brit otherwise
AngRegionEnd ==
    /\ ang.pc = "end"
    /\ ang' = [ang EXCEPT !.pc = IF ang.reg = Len(ang.regions) THEN "done" ELSE "region",
                          !.reg = IF ang.reg = Len(ang.regions) THEN @ ELSE @ + 1]
    /\ UNCHANGED <<imp, dec, spl, rsm, bld, vdcc>>

AngNext == AngEnter \/ AngRegionStart \/ AngSegment \/ AngRegionEnd

SpecAngular == AngInit /\ [][AngNext]_vars

-----------------------------------------------------------------------------
(* Claims about the builders                                               *)

\* the lengths a frame holds for its branching point are all finite
FiniteExtent(f) ==
    /\ IsFin(f.g.bp_start) /\ IsFin(f.g.bp_end) /\ IsFin(f.g.surfBPoffset)
    /\ \A j \in 1..Len(f.g.branchOffset) : IsFin(f.g.branchOffset[j])

\* C6 (as stated): every build that has returned, of a root or of a child and
\* in every variant, has closed its tip: its final ring was merged into one
\* vertex whose axial parameter is 2.0
C6_EveryBuildClosesTip ==
    \A k \in 1..Len(bld.returned) :
        \E j \in 1..Len(bld.tips) :
            /\ bld.tips[j].nid = bld.returned[k]
            /\ bld.tips[j].v \notin bld.erased
            /\ bld.aaSurfParams[bld.tips[j].v].axial = 2 * TRes

\* C7 (as stated): a branch whose child is collinear with its parent fails
\* with an error before anything is computed from 1/sqrt(1 - cos^2): no
\* invocation ever holds a reserved interval [bp_start, bp_end], a surface
\* offset or a branch offset that is infinite or NaN
C7_CollinearBranchFails ==
    (bld.pc # "start" /\ bld.pc # "idle") =>
        \A k \in 1..Len(bld.stack) : FiniteExtent(bld.stack[k])

\* C9: at every step of a build the current ring of every invocation, the
\* ring handed to a child included, has 4 distinct vertices in the variants
\* without an inner layer and 16 in the variant with one, none of them erased
C9_RingSizeConstant ==
    (bld.pc # "start" /\ bld.pc # "idle") =>
        \A k \in 1..Len(bld.stack) :
            LET ring == bld.stack[k].vVrt
                verts == { ring[j] : j \in 1..Len(ring) }
            IN  /\ Len(ring) = IF bld.variant = "er" THEN 16 ELSE 4
                /\ Cardinality(verts) = Len(ring)
                /\ verts \cap bld.erased = {}
                /\ verts \subseteq DOMAIN bld.aaSurfParams

\* a child that was handed its ring at a branching point has extruded it,
\* and its parent has extruded before the branching point
C9_Witness ==
    /\ bld.pc = "run"
    /\ Len(bld.stack) = 2
    /\ bld.stack[1].pc = "resume" /\ bld.stack[1].nSeg > 1
    /\ bld.stack[2].pc = "seg" /\ bld.stack[2].s > 0

\* the invocations that hold the lengths of the branching point they work on
BranchFrames ==
    { k \in 1..Len(bld.stack) :
        /\ bld.stack[k].pc \in {"seg", "connect", "resume", "end"}
        /\ HasBranch(bld.stack[k]) }

\* the parent's radius at the branching point of frame f, the radius of the
\* first point of the last child that starts there, and the two directions
ParentRadAtBP(f) ==
    LET t == Neurite(f).vBR[f.brit + 1].t
        i == CHOOSE j \in 1..Len(Neurite(f).vSec) : Neurite(f).vSec[j].endParam = t
    IN  Neurite(f).vR[i + 1]
LastChild(f) == bld.vNeurites[BranchOf(f).vNid[Len(BranchOf(f).vNid)] + 1]
CosTimesNormSq(f) == VecProd(Neurite(f).dir, LastChild(f).dir)
SinTimesNormSq(f) == Abs(VecCross2(Neurite(f).dir, LastChild(f).dir))

\* (rad/sqrt(2)) * cos / sqrt(1 - cos^2) as a parameter difference, and the
\* rounding allowed around it
CotOffset(rad, f) ==
    (HalfSqrt2 * rad * CosTimesNormSq(f) * ((TRes \div NeuriteLength) \div FracDen))
        \div SinTimesNormSq(f)
OffsetTol == 2 * 2
Near(a, b) == Abs(a - b) <= OffsetTol

\* C13 (as stated): the axial offset of a branch is (r_child/sqrt(2)) *
\* cos(theta) / sqrt(1 - cos^2(theta)) with r_child the radius of the child's
\* first point
C13_OffsetFromChildRadius ==
    \A k \in BranchFrames :
        LET f == bld.stack[k]
        IN  SinTimesNormSq(f) # 0 =>
                /\ IsFin(f.g.surfBPoffset)
                /\ Near(f.g.surfBPoffset.v, CotOffset(LastChild(f).vR[1], f))

\* C13 (amended): the axial offset of a branch is (r_parent/sqrt(2)) *
\* cos(theta) / sqrt(1 - cos^2(theta)) with r_parent the radius of the parent
\* neurite at the branching point and theta the angle between the parent's
\* tangent and the child's initial tangent
C13_OffsetFromParentRadius ==
    \A k \in BranchFrames :
        LET f == bld.stack[k]
        IN  SinTimesNormSq(f) # 0 =>
                /\ IsFin(f.g.surfBPoffset)
                /\ Near(f.g.surfBPoffset.v, CotOffset(ParentRadAtBP(f), f))

\* a branch at an oblique angle whose child is thicker than its parent at
\* the branching point
C13_Witness ==
    \E k \in BranchFrames :
        LET f == bld.stack[k]
        IN  /\ SinTimesNormSq(f) # 0 /\ CosTimesNormSq(f) > 0
            /\ LastChild(f).vR[1] > ParentRadAtBP(f)
            /\ f.g.surfBPoffset.v > 0

\* some quadrature point of the sections the call integrates over has a
\* radius with r^2 <= 1e-12 * |velocity|^2
RECURSIVE VanishingRadiusBetween(_, _, _, _)
VanishingRadiusBetween(vSec, sec_it, t_start, t_end) ==
    IF sec_it >= Len(vSec) THEN FALSE
    ELSE LET sec == vSec[sec_it + 1]
             from == Max(t_start, SecStart(vSec, sec_it))
             to == Min(t_end, sec.endParam)
         IN  \/ \E i \in 1..nPts :
                    LET t == sec.endParam - (from + MulFrac(to - from, GLPoints[i], GLDen))
                    IN  RadiusVanishes(SplineVal(sec.splineParamsR, t), SecVel(sec, t))
             \/ to < t_end /\ VanishingRadiusBetween(vSec, sec_it + 1, to, t_end)

\* C14 (as stated): the guard on the radius keeps every infinite or NaN
\* integral from the segment count and the axial positions: the length over
\* radius an invocation of a builder computes its segment count from is
\* always a finite number
C14_NoNonFiniteIntegral ==
    (bld.pc # "start" /\ bld.pc # "idle") =>
        \A k \in 1..Len(bld.stack) : IsFin(bld.stack[k].lengthOverRadius)

\* the part of C14 about the guard alone, for calls with finite arguments:
\* a call whose quadrature meets a vanishing radius ends in the error
C14_VanishingRadiusThrows ==
    (rsm.pc # "idle" /\ rsm.pc # "call"
        /\ ~WrongSection(rsm.vSec, rsm.startSec, rsm.t_start0)
        /\ VanishingRadiusBetween(rsm.vSec, rsm.startSec, rsm.t_start0, rsm.t_end))
    => rsm.pc = "throw"

\* the vertices of the grid, and those that close a tip
GridVertices == DOMAIN bld.aaSurfParams \ bld.erased
TipVertices == { bld.tips[j].v : j \in 1..Len(bld.tips) }

\* C18 (as stated): the axial parameter of every vertex of the grid lies in
\* [0,2], and only the vertices that close a tip have the value 2.0
C18_AxialInRange ==
    (bld.pc # "start" /\ bld.pc # "idle") =>
        \A v \in GridVertices :
            /\ bld.aaSurfParams[v].axial >= 0
            /\ bld.aaSurfParams[v].axial <= 2 * TRes
            /\ bld.aaSurfParams[v].axial = 2 * TRes => v \in TipVertices

\* C19 (as stated): every angular surface parameter written to a vertex lies
\* in the half-open interval [0, 2*pi); the value 2*pi itself is never stored
C19_AngularBelowTwoPi ==
    (ang.pc # "idle") =>
        \A k \in 1..Len(ang.angular) : ang.angular[k] >= 0 /\ ang.angular[k] < TwoPi


\* C20 (as stated): once the surface parameters of a vertex have been written
\* at its creation, no later step of the build (extrusion, branching region,
\* recursion into a child) changes any of their fields
C20_SurfParamsWrittenOnce ==
    [][\A v \in DOMAIN bld.aaSurfParams :
          bld'.aaSurfParams[v] = bld.aaSurfParams[v]]_vars


RegionFrames ==
    { k \in 1..Len(bld.stack) : bld.stack[k].pc \in {"seg", "connect", "resume", "end"} }

\* C28 (as stated): within one neurite build the axial positions at which
\* successive rings are placed, over the usual segments and the ends of the
\* branching regions and across the passes of the region loop, form a
\* strictly increasing sequence contained in (0, 1]: the positions of a
\* region are finite, increase strictly from the end of the region before
\* and do not exceed 1
C28_AxialPositionsIncrease ==
    (bld.pc # "start" /\ bld.pc # "idle") =>
        \A k \in RegionFrames :
            LET f == bld.stack[k]
            IN  \A j \in 0..(f.nSeg - 1) :
                    /\ IsFin(SegAxPosAt(f, j))
                    /\ SegAxPosAt(f, j).v > 0
                    /\ SegAxPosAt(f, j).v <= TRes
                    /\ SegAxPosAt(f, j).v > (IF j = 0 THEN f.t_start
                                             ELSE SegAxPosAt(f, j - 1).v)


\* C24 (as stated): during mesh building no element of the grid that has
\* been created is removed again, except by the merging of vertices at the
\* closure of a tip: every face stays in the grid, and vertices are erased
\* only by the step that closes a tip
C24_NothingRemoved ==
    [][/\ bld.faces \subseteq bld'.faces
       /\ bld'.erased # bld.erased => (bld.stack # <<>> /\ Top.pc = "tip")]_vars


(***************************************************************************)
(* VDCC_BG: the Borg-Graham voltage-dependent calcium channel              *)
(* (membrane_transporters/vdcc_bg/vdcc_bg.cpp).                            *)
(*                                                                         *)
(* One object with one membrane element.  Times are integers in units of   *)
(* 5e-6 s, so that the step dt = 1e3 * (m_time - m_oldTime) in ms is the   *)
(* same integer in units of 5e-3 ms and the sub-step limit 1e-2 ms is 2.   *)
(* Gating values are fixed-point numbers with GRes units to 1.  The        *)
(* membrane potential of the element comes from outside the object         *)
(* (update_potential is supplied by the derived class) and is drawn from   *)
(* Vms.  Each action is one call on the object; res tells whether the      *)
(* call threw, last which call it was.  stepDt and stepSum record, for     *)
(* the latest calc_gating_step, its dt and the sum of the sizes of the     *)
(* steps it applied.                                                       *)
(***************************************************************************)
GRes == 100 * 100

\* number vdcc_dt = 1e-2 (ms), in time units
SubStep == 2

NoTime == -1

Times == {0, 1, 3, 6}

\* membrane potentials in mV
Vms == {-65, 0}

MaxCalls == 3

\* gp.tau_0 in time units: m_gpMGate(3.4, -21.0, 1.5), m_gpHGate(-2.0, -40.0, 75.0)
Tau0(gate) == IF gate = "m" THEN 3 * 100 ELSE 150 * 100

\* 1.0 / (1.0 + exp(-gp.z * (Vm - gp.V_12) * 1e-3*F/(R*T))) with R = 8.314,
\* T = 310, F = 96485, tabulated for the potentials of Vms and rounded to
\* 1/GRes
calc_gating_start(gate, Vm) ==
    IF gate = "m"
    THEN (IF Vm = -65 THEN 37 ELSE 9354)
    ELSE (IF Vm = -65 THEN 8667 ELSE 477)

\* forward step: currVal = (tau_0*currVal + h*gp_inf) / (tau_0 + h)
ImplicitStep(tau, gp_inf, h, currVal) ==
    RDiv(tau * currVal + h * gp_inf, tau + h)

\* backward step: currVal += h/tau_0 * (gp_inf - currVal)
ExplicitStep(tau, gp_inf, h, currVal) ==
    currVal + RDiv(h * (gp_inf - currVal), tau)

\* the loop of the forward branch, from intermediate time t0 with step
\* size vdcc_dt
RECURSIVE ForwardLoop(_, _, _, _, _, _, _)
ForwardLoop(tau, gp_inf, dt, t0, vdcc_dt, currVal, sum) ==
    IF ~(t0 < dt) THEN [currVal |-> currVal, sum |-> sum]
    ELSE LET over == t0 + vdcc_dt > dt
             t    == IF over THEN dt ELSE t0 + vdcc_dt
             h    == IF over THEN dt - t0 ELSE vdcc_dt
         IN  ForwardLoop(tau, gp_inf, dt, t, h,
                         ImplicitStep(tau, gp_inf, h, currVal), sum + h)

\* the loop of the backward branch
RECURSIVE BackwardLoop(_, _, _, _, _, _, _)
BackwardLoop(tau, gp_inf, dt, t0, vdcc_dt, currVal, sum) ==
    IF ~(t0 > dt) THEN [currVal |-> currVal, sum |-> sum]
    ELSE LET over == t0 + vdcc_dt < dt
             t    == IF over THEN dt ELSE t0 + vdcc_dt
             h    == IF over THEN dt - t0 ELSE vdcc_dt
         IN  BackwardLoop(tau, gp_inf, dt, t, h,
                          ExplicitStep(tau, gp_inf, h, currVal), sum + h)

\* calc_gating_step: the new gating value and the sum of the step sizes
\* applied.  In the backward branch the final statement is not in an else
\* branch and runs after the loop as well.
calc_gating_step(gate, Vm, dt, currVal) ==
    LET gp_inf == calc_gating_start(gate, Vm)
        tau    == Tau0(gate)
    IN  IF dt >= 0
        THEN IF dt > SubStep
             THEN ForwardLoop(tau, gp_inf, dt, 0, SubStep, currVal, 0)
             ELSE [currVal |-> ImplicitStep(tau, gp_inf, dt, currVal), sum |-> dt]
        ELSE LET l == IF dt < -SubStep
                      THEN BackwardLoop(tau, gp_inf, dt, 0, -SubStep, currVal, 0)
                      ELSE [currVal |-> currVal, sum |-> 0]
             IN  [currVal |-> ExplicitStep(tau, gp_inf, dt, l.currVal),
                  sum     |-> l.sum + dt]

update_potential(o, v) == [o EXCEPT !.vm = v]

\* SubsetGroup(m_dom->subset_handler(), m_vSubset) throws when a subset name
\* of the object is unknown to the domain
SubsetGroupFails(o) == ~o.subsetsOk

\* init(time); v is the potential update_potential finds
init(o, time, v) ==
    LET a == [o EXCEPT !.m_time = time, !.m_initTime = time, !.initCalled = TRUE]
        b == update_potential(a, v)
        c == IF b.m_bUseGatingAttachments
             THEN [b EXCEPT !.mGate = calc_gating_start("m", v),
                            !.hGate = IF b.has_hGate
                                      THEN calc_gating_start("h", v) ELSE @]
             ELSE b
    IN  IF SubsetGroupFails(a) THEN [a EXCEPT !.res = "throw"]
        ELSE [c EXCEPT !.m_initiated = TRUE]

\* update_gating without its test
NotInitiatedSkipped(o) == FALSE

\* the test at the head of update_gating
NotInitiated(o) == ~o.m_initiated

\* update_gating(elem).  Without gating attachments the accessors m_aaMGate
\* and m_aaHGate were never created and their use is undefined.
update_gating(o) ==
    IF NotInitiated(o) THEN [o EXCEPT !.res = "throw"]
    ELSE IF ~o.m_bUseGatingAttachments THEN [o EXCEPT !.pc = "ub"]
    ELSE LET dt == o.m_time - o.m_oldTime
             m  == calc_gating_step("m", o.vm, dt, o.mGate)
             h  == calc_gating_step("h", o.vm, dt, o.hGate)
         IN  [o EXCEPT !.mGate = m.currVal,
                       !.hGate = IF o.has_hGate THEN h.currVal ELSE @,
                       !.stepped = TRUE, !.stepDt = dt, !.stepSum = m.sum]

update_time(o, newTime) ==
    IF newTime # o.m_time
    THEN [o EXCEPT !.m_oldTime = o.m_time, !.m_time = newTime]
    ELSE o

\* prepare_timestep(future_time, time, upb); v0 is the potential found by
\* init, v the one found by the update of the element
prepare_timestep(o, future_time, time, v0, v) ==
    LET a == IF ~o.m_initiated \/ future_time = o.m_initTime
             THEN init(o, time, v0) ELSE o
        b == update_time(a, future_time)
        backwardsStep == b.m_time < b.m_oldTime
    IN  IF a.res = "throw" THEN a
        ELSE IF SubsetGroupFails(b) THEN [b EXCEPT !.res = "throw"]
        ELSE IF b.m_bUseGatingAttachments
             THEN IF backwardsStep
                  THEN LET g == update_gating(b)
                       IN  IF g.res = "throw" THEN g ELSE update_potential(g, v)
                  ELSE update_gating(update_potential(b, v))
             ELSE update_potential(b, v)

\* a call starts with no exception pending and no gating step taken
BeginCall(o) == [o EXCEPT !.res = "ok", !.stepped = FALSE]

EndCall(o, name) == [o EXCEPT !.last = name, !.nCalls = @ + 1]

\* the object after construction: m_time(0.0), m_oldTime(0.0),
\* m_initiated(false); m_bUseGatingAttachments is false when a function for
\* the gating variable m is supplied; attachments start with the value 0
VdccInit ==
    /\ \E useAtt \in BOOLEAN, hGate \in BOOLEAN, ok \in BOOLEAN :
          vdcc = [pc |-> "ready", m_initiated |-> FALSE,
                  m_bUseGatingAttachments |-> useAtt, has_hGate |-> hGate,
                  subsetsOk |-> ok,
                  m_time |-> 0, m_oldTime |-> 0, m_initTime |-> NoTime,
                  vm |-> 0, mGate |-> 0, hGate |-> 0,
                  initCalled |-> FALSE, res |-> "ok", last |-> "none",
                  nCalls |-> 0, stepped |-> FALSE, stepDt |-> 0, stepSum |-> 0]
    /\ imp = Idle /\ dec = Idle /\ spl = Idle /\ rsm = Idle /\ bld = Idle /\ ang = Idle

VdccCallInit ==
    /\ vdcc.pc = "ready" /\ vdcc.nCalls < MaxCalls
    /\ \E time \in Times, v \in Vms :
          vdcc' = EndCall(init(BeginCall(vdcc), time, v), "init")
    /\ UNCHANGED <<imp, dec, spl, rsm, bld, ang>>

VdccCallPrepareTimestep ==
    /\ vdcc.pc = "ready" /\ vdcc.nCalls < MaxCalls
    /\ \E future_time \in Times, time \in Times, v0 \in Vms, v \in Vms :
          vdcc' = EndCall(prepare_timestep(BeginCall(vdcc), future_time, time, v0, v),
                          "prepare_timestep")
    /\ UNCHANGED <<imp, dec, spl, rsm, bld, ang>>

VdccCallUpdateGating ==
    /\ vdcc.pc = "ready" /\ vdcc.nCalls < MaxCalls
    /\ vdcc' = EndCall(update_gating(BeginCall(vdcc)), "update_gating")
    /\ UNCHANGED <<imp, dec, spl, rsm, bld, ang>>

VdccNext ==
    \/ VdccCallInit
    \/ VdccCallPrepareTimestep
    \/ VdccCallUpdateGating

SpecGating == VdccInit /\ [][VdccNext]_vars

(***************************************************************************)
(* Claims about the channel                                                *)
(***************************************************************************)

\* C29 (as stated): one call of calc_gating_step advances the gating value
\* over a total time of exactly dt: the sizes of the steps and sub-steps it
\* applied sum to dt, for positive and negative dt, below and above the
\* sub-step limit
C29_StepsSumToDt ==
    vdcc.pc # "idle" /\ vdcc.stepped => vdcc.stepSum = vdcc.stepDt

\* C29: the step that fails it: a backward dt beyond the sub-step limit
C29_BackwardBeyondLimit ==
    vdcc.pc # "idle" /\ vdcc.stepped /\ vdcc.stepDt < -SubStep
        /\ vdcc.stepSum = 2 * vdcc.stepDt

\* C30: for any sequence of init, prepare_timestep and update_gating calls,
\* update_gating changes a gating value only if init has run before: a call
\* takes a gating step only on an initiated object, a direct update_gating
\* that changes a gate was preceded by a completed init, and update_gating
\* called before any init throws and leaves every field of the object as
\* it was
C30_GatingOnlyAfterInit ==
    [][LET gatesChanged == \/ vdcc'.mGate # vdcc.mGate
                           \/ vdcc'.hGate # vdcc.hGate
           direct == /\ vdcc'.last = "update_gating"
                     /\ vdcc'.nCalls = vdcc.nCalls + 1
       IN  /\ vdcc'.stepped => vdcc'.m_initiated /\ vdcc'.initCalled
           /\ direct /\ gatesChanged => vdcc.m_initiated /\ vdcc.initCalled
           /\ direct /\ ~vdcc.initCalled =>
                 /\ vdcc'.res = "throw"
                 /\ [vdcc' EXCEPT !.last = vdcc.last, !.nCalls = vdcc.nCalls,
                                  !.res = vdcc.res] = vdcc]_vars

\* C30: update_gating was called on an object on which init never ran, and
\* threw
C30_ThrownBeforeInit ==
    /\ vdcc.pc = "ready" /\ vdcc.last = "update_gating"
    /\ vdcc.res = "throw" /\ ~vdcc.initCalled /\ ~vdcc.stepped

=============================================================================
